---- MODULE Spec2Model ----
(***************************************************************************)
(* Verification model of the scan engines, XsintEngine (src/xsint/core.py) *)
(* and KissEngine (src/kiss/core.py): target detection, module eligibility,*)
(* concurrent module execution (in XsintEngine under a timeout) and        *)
(* aggregation of the module results.                                      *)
(*                                                                         *)
(* Modules are the environment.  A launched module either returns a value, *)
(* raises an Exception, or stays suspended (possibly forever) until the    *)
(* timeout of asyncio.wait_for expires and cancels it.                     *)
(***************************************************************************)
EXTENDS Integers, Sequences, FiniteSets, Bags, TLC

\* ------------------------------------------------------------------ bounds
\* At most this many module files are present in the modules directory.
MaxModules == 2
\* A module returns a list of at most this many findings.
MaxFindings == 2

\* ------------------------------------------------------- program constants
\* XSINT_MODULE_TIMEOUT default (seconds).
DefaultModuleTimeout == 25

NoVal == "<None>"        \* Python None
NoKey == "<no api_key>"  \* INFO has no "api_key" entry

VALID_TYPES ==
    {"email", "username", "phone", "ip", "address", "hash", "name", "id",
     "ssn", "passport"}

\* The sentinel value filtered from the final data.
NoneFound == "None found"

\* --------------------------------------------------------- parser.py
\* A target string, seen the way detect_target_type inspects it:
\*   text    the whole string, stripped
\*   colon   whether it contains ":"
\*   prefix  the text before the first ":" (as typed)
\*   value   the text after the first ":"
\*   auto    what the strict auto-detection (ipaddress, the e-mail regex,
\*           phonenumbers) finds for the whole string: "ip", "email",
\*           "phone" or NoVal.
Targets ==
    { [text |-> "email: a@b.co", colon |-> TRUE, prefix |-> "email",
       value |-> " a@b.co", auto |-> NoVal],
      [text |-> "HASH:5f4dcc3b", colon |-> TRUE, prefix |-> "HASH",
       value |-> "5f4dcc3b", auto |-> NoVal],
      [text |-> "1.1.1.1", colon |-> FALSE, prefix |-> "",
       value |-> "", auto |-> "ip"],
      [text |-> "::1", colon |-> TRUE, prefix |-> "",
       value |-> ":1", auto |-> "ip"],
      [text |-> "admin", colon |-> FALSE, prefix |-> "",
       value |-> "", auto |-> NoVal],
      [text |-> "xyz:admin", colon |-> TRUE, prefix |-> "xyz",
       value |-> "admin", auto |-> NoVal] }

\* str.lower() on the prefixes that occur.
Lower(s) ==
    CASE s = "HASH"  -> "hash"
      [] s = "EMAIL" -> "email"
      [] s = "Ip"    -> "ip"
      [] OTHER       -> s

\* str.strip() on the values that occur.
Strip(s) ==
    CASE s = " a@b.co" -> "a@b.co"
      [] OTHER         -> s

\* The explicit prefix table of detect_target_type.
PrefixType(p) ==
    CASE p \in {"addr", "address", "loc"}   -> "address"
      [] p \in {"user", "username", "u"}    -> "username"
      [] p \in {"phone", "tel"}             -> "phone"
      [] p \in {"ip", "host"}               -> "ip"
      [] p \in {"email", "mail"}            -> "email"
      [] p \in {"name", "n"}                -> "name"
      [] p \in {"id", "ic"}                 -> "id"
      [] p \in {"ssn"}                      -> "ssn"
      [] p \in {"passport", "pp"}           -> "passport"
      [] p \in {"hash", "h"}                -> "hash"
      [] OTHER                              -> NoVal

\* detect_target_type(target) -> (type, clean target)
detect_target_type(t) ==
    IF t.colon /\ PrefixType(Lower(t.prefix)) # NoVal
    THEN <<PrefixType(Lower(t.prefix)), Strip(t.value)>>
    ELSE IF t.auto \in {"ip", "email", "phone"}
         THEN <<t.auto, t.text>>
         ELSE <<NoVal, NoVal>>

\* --------------------------------------------------------- config.py
Services == {"hibp", "intelx"}

\* A stored credential: absent, blank, or set.
KeyValues == {NoVal, "  ", "secret"}

IsBlank(v) == v = NoVal \/ v = "" \/ v = "  "

\* ConfigManager.get_api_key: the environment first, then config.json;
\* a blank value counts as absent.
get_api_key(cred, service) ==
    IF service \notin DOMAIN cred THEN NoVal
    ELSE IF ~IsBlank(cred[service].env) THEN cred[service].env
    ELSE IF ~IsBlank(cred[service].cfg) THEN cred[service].cfg
    ELSE NoVal

\* The states of one service's credential the model draws from.
CredStates ==
    { [env |-> "  ",     cfg |-> NoVal],
      [env |-> NoVal,    cfg |-> "secret"],
      [env |-> "secret", cfg |-> "  "] }

\* The haxalot set-up: the haxalot_enabled config flag and the Telegram
\* session file.
HaxalotStates ==
    { [enabled |-> FALSE, session |-> FALSE],
      [enabled |-> TRUE,  session |-> FALSE],
      [enabled |-> TRUE,  session |-> TRUE] }

\* ------------------------------------------------------- modules/*.py
\* The module files the modules directory may hold, sorted by file name as
\* _scan_modules lists them.  free/paid/api_key are the INFO dict; ready is
\* the module's is_ready ("none": it defines none, "key": ready iff its API
\* key is set, "flag": ready iff enabled in the config, "false": returns a
\* bare False); load is what importing it gives ("ok", "import_error", or
\* "no_run": it imports but has no callable run).
ModuleTable ==
    << [name |-> "email_basic", free |-> {"email"}, paid |-> {},
        api_key |-> NoKey, ready |-> "none", load |-> "ok"],
       [name |-> "ghunt_lookup", free |-> {}, paid |-> {"email", "phone", "gaia_id"},
        api_key |-> NoKey, ready |-> "none", load |-> "ok"],
       [name |-> "haxalot_module", free |-> {"email", "username", "phone", "ip"},
        paid |-> {}, api_key |-> NoKey, ready |-> "flag", load |-> "ok"],
       [name |-> "hibp", free |-> {"hash"}, paid |-> {"email", "username", "phone"},
        api_key |-> "hibp", ready |-> "none", load |-> "ok"],
       [name |-> "intelx", free |-> {}, paid |-> {"email", "username", "phone"},
        api_key |-> "intelx", ready |-> "key", load |-> "ok"],
       [name |-> "ip_basic", free |-> {"ip"}, paid |-> {},
        api_key |-> NoKey, ready |-> "none", load |-> "ok"],
       [name |-> "x_broken", free |-> {"email"}, paid |-> {},
        api_key |-> NoKey, ready |-> "none", load |-> "import_error"],
       [name |-> "x_norun", free |-> {"ip"}, paid |-> {},
        api_key |-> NoKey, ready |-> "none", load |-> "no_run"],
       [name |-> "x_notready", free |-> {"hash"}, paid |-> {},
        api_key |-> NoKey, ready |-> "false", load |-> "ok"],
       [name |-> "x_overlap", free |-> {"hash"}, paid |-> {"hash"},
        api_key |-> "hibp", ready |-> "none", load |-> "ok"] >>

ModIds == DOMAIN ModuleTable
ModNames == { ModuleTable[i].name : i \in ModIds }

\* The module with a given file name.
Mod(n) == CHOOSE m \in { ModuleTable[i] : i \in ModIds } : m.name = n

\* ----------------------------------------------------------- core.py
VARIABLES
    engine,      \* whose scan() runs: "xsint" (XsintEngine) or "kiss" (KissEngine)
    installed,   \* the module files present (indices of ModuleTable)
    cred,        \* the credential store: service -> [env, cfg]
    haxalot,     \* the haxalot set-up
    target,      \* the target string given to scan
    pc,          \* where scan() is: "start", "gather", "returned"
    runners,     \* runners_with_info: the names of the launched modules
    task,        \* per module: "none", "pending", "running", "done"
    behaviour,   \* per module: "completes" on its own, or "hangs" for ever
    res,         \* per module: what _run_module_with_progress returned
    ran,         \* per module: how often its run function was invoked
    mainEvents,  \* the progress events scan() itself emitted, in order
    modEvents,   \* per module: the progress events of its task, in order
    ret,         \* what scan() returned
    sink,        \* progress_cb: "absent", "present", or one that "raises"
    env_timeout, \* the environment variable XSINT_MODULE_TIMEOUT, or None
    module_timeout, \* XsintEngine.module_timeout, in seconds
    finished,    \* the launched modules whose task is done, first done first
    pool,        \* the HTTP requests in flight, by engine and host
    retry,       \* the retry loop of a module's run function
    caps,        \* what get_capabilities and _load_modules_for_type gave
    ascan,       \* AsyncOSINTEngine: its plugin set-up, routing and scans
    \* plugins/registry.py
    plugin_files, \* the plugin files on disk, by location
    plugins,      \* PluginRegistry._plugins, in insertion order
    initialized,  \* PluginRegistry._initialized
    lastOp,       \* the last registry call and what it returned
    \* query_parser.py, scanner/detectors.py
    query,        \* the raw string given to parse / detect_input_type
    parsed,       \* the ParsedQuery parse returned
    classified,   \* what detect_input_type returned
    wifi,         \* what get_wifi_components returned for parsed
    handed        \* what scan_query_async did with the query

auxVars == <<caps, ascan>>
netVars == <<pool, retry, auxVars>>
envVars == <<sink, env_timeout, module_timeout, netVars>>
scanVars == <<engine, installed, cred, haxalot, target, pc, runners, task,
              behaviour, res, ran, mainEvents, modEvents, ret, envVars,
              finished>>
registryVars == <<plugin_files, plugins, initialized, lastOp>>
parserVars == <<query, parsed, classified, wifi, handed>>

vars == <<scanVars, registryVars, parserVars>>

\* The registry as PluginRegistry.__new__ makes it, with no call made yet.
NoOp == [op |-> "", cls |-> "", name |-> "", paths |-> <<>>, ret |-> "None",
         ran |-> FALSE]
NoFiles == [builtin |-> <<>>, custom |-> <<>>, user |-> <<>>,
            user_exists |-> FALSE]

RegistryNew ==
    /\ plugins = <<>>
    /\ initialized = FALSE
    /\ lastOp = NoOp

\* No query parsed or classified yet.
NotParsed == [done |-> FALSE]
NotClassified == "<not classified>"
NotAccessed == <<"<not accessed>">>
NotHanded == [done |-> FALSE]

ParserNew ==
    /\ parsed = NotParsed
    /\ classified = NotClassified
    /\ wifi = NotAccessed
    /\ handed = NotHanded

\* The parts of the program a scan does not touch.
RegistryUnused == plugin_files = NoFiles /\ RegistryNew
ParserUnused == query = "" /\ ParserNew
NoPool == [engine |-> "", launched |-> 0, inflight |-> <<>>]
NoRetry == [module |-> "", pc |-> ""]
NoCaps == [listed |-> FALSE, listing |-> <<>>, type |-> "", runners |-> <<>>]
NoAscan == [flag |-> FALSE, registry |-> FALSE, routes |-> <<>>, scans |-> <<>>]
AuxUnused == caps = NoCaps /\ ascan = NoAscan
NetUnused == pool = NoPool /\ retry = NoRetry /\ AuxUnused
EnvUnused ==
    /\ sink = "" /\ env_timeout = "" /\ module_timeout = 0
    /\ finished = <<>>
    /\ NetUnused

\* _scan_modules: the installed modules, sorted by file name.
RECURSIVE ScanFrom(_, _)
ScanFrom(inst, i) ==
    IF i > Len(ModuleTable) THEN <<>>
    ELSE (IF i \in inst THEN <<ModuleTable[i]>> ELSE <<>>) \o ScanFrom(inst, i + 1)

scan_modules(inst) == ScanFrom(inst, 1)

\* What the module's is_ready() returns: [tuple, ready, reason].
is_ready(mod, c, hax) ==
    CASE mod.ready = "key" ->
           IF get_api_key(c, mod.api_key) # NoVal
           THEN [tuple |-> TRUE, ready |-> TRUE, reason |-> ""]
           ELSE [tuple |-> TRUE, ready |-> FALSE,
                 reason |-> "set intelx API key"]
      [] mod.ready = "flag" ->
           IF hax.enabled /\ hax.session
           THEN [tuple |-> TRUE, ready |-> TRUE, reason |-> ""]
           ELSE [tuple |-> TRUE, ready |-> FALSE,
                 reason |-> "run xsint --auth haxalot"]
      [] OTHER -> [tuple |-> FALSE, ready |-> FALSE, reason |-> ""]

\* XsintEngine._module_ready -> (ready, reason)
module_ready(mod, c, hax) ==
    IF mod.ready = "none" THEN <<TRUE, "">>
    ELSE LET r == is_ready(mod, c, hax)
         IN  IF r.tuple THEN <<r.ready, r.reason>> ELSE <<r.ready, "">>

\* Locked as a key gate that forgets that a free type needs no key.
LockedIgnoringFree(mod, ty, c) ==
    /\ ty \in mod.paid
    /\ mod.api_key # NoKey
    /\ get_api_key(c, mod.api_key) = NoVal

\* The key gate of _load_modules_for_type: a type that is paid and not free,
\* an api_key declared, and no key stored.
Locked(mod, ty, c) ==
    /\ ty \in mod.paid
    /\ ty \notin mod.free
    /\ mod.api_key # NoKey
    /\ get_api_key(c, mod.api_key) = NoVal

\* What one iteration of the loop of _load_modules_for_type does with a
\* module: "unsupported", "locked", "import_error", "skipped", "runner" or
\* "no_run".
LoadStep(mod, ty, c, hax) ==
    IF ty \notin (mod.free \cup mod.paid) THEN "unsupported"
    ELSE IF Locked(mod, ty, c) THEN "locked"
    ELSE IF mod.load = "import_error" THEN "import_error"
    ELSE IF ~module_ready(mod, c, hax)[1] THEN "skipped"
    ELSE IF mod.load = "ok" THEN "runner"
    ELSE "no_run"

SkipReason(mod, c, hax) ==
    LET reason == module_ready(mod, c, hax)[2]
    IN  IF reason # "" THEN reason ELSE "not configured"

RECURSIVE LoadFrom(_, _, _, _)
LoadFrom(mods, ty, c, hax) ==
    IF mods = <<>> THEN [runners |-> <<>>, skipped |-> <<>>]
    ELSE LET mod  == Head(mods)
             rest == LoadFrom(Tail(mods), ty, c, hax)
             step == LoadStep(mod, ty, c, hax)
         IN  [runners |-> (IF step = "runner" THEN <<mod.name>> ELSE <<>>)
                          \o rest.runners,
              skipped |-> (IF step = "skipped"
                           THEN <<[name |-> mod.name,
                                   reason |-> SkipReason(mod, c, hax)]>>
                           ELSE <<>>) \o rest.skipped]

\* XsintEngine._load_modules_for_type -> (runners, skipped)
load_modules_for_type(inst, ty, c, hax) ==
    LoadFrom(scan_modules(inst), ty, c, hax)

\* capability_status as a listing that asks for the key before the free
\* list.
capability_status_key_first(mod, ty, c, hax) ==
    LET has_key == IF mod.api_key # NoKey
                   THEN get_api_key(c, mod.api_key) # NoVal ELSE TRUE
        runtime_ready == mod.load # "import_error" /\ module_ready(mod, c, hax)[1]
        status == IF has_key THEN "active" ELSE "locked"
    IN  IF status = "active" /\ ~runtime_ready THEN "locked" ELSE status

\* The status get_capabilities lists a module with under one of its types.
capability_status(mod, ty, c, hax) ==
    LET has_key == IF mod.api_key # NoKey
                   THEN get_api_key(c, mod.api_key) # NoVal ELSE TRUE
        runtime_ready == mod.load # "import_error" /\ module_ready(mod, c, hax)[1]
        status == IF ty \in mod.free THEN "active"
                  ELSE IF has_key THEN "active"
                  ELSE "locked"
    IN  IF status = "active" /\ ~runtime_ready THEN "locked" ELSE status

RECURSIVE CapsFrom(_, _, _, _)
CapsFrom(mods, ty, c, hax) ==
    IF mods = <<>> THEN <<>>
    ELSE (IF ty \in (Head(mods).free \cup Head(mods).paid) /\ ty \in VALID_TYPES
          THEN <<[name |-> Head(mods).name,
                  status |-> capability_status(Head(mods), ty, c, hax)]>>
          ELSE <<>>) \o CapsFrom(Tail(mods), ty, c, hax)

\* XsintEngine.get_capabilities()[ty]
get_capabilities(inst, ty, c, hax) == CapsFrom(scan_modules(inst), ty, c, hax)

\* ------------------------------------------------------ module results
\* The findings a module may report: a real one (email_basic's) and the
\* "nothing found" sentinel (hibp's).  Any module may report either, so two
\* modules can report the identical finding.
MailServer ==
    [label |-> "Mail Server", value |-> "mx.example.com", source |-> "DNS",
     risk |-> "low"]
NoBreaches ==
    [label |-> "Breaches", value |-> NoneFound, source |-> "HIBP",
     risk |-> "low"]
FindingPool == {MailServer, NoBreaches}

FindingLists ==
    UNION { [1..n -> FindingPool] : n \in 0..MaxFindings }

\* What a module's run may return: the (status, list) pair of the module
\* contract, a pair whose second part is no list, or no pair at all.
RunResults ==
    { [kind |-> "result", shape |-> "pair", data |-> d, msg |-> ""] :
        d \in FindingLists }
    \cup { [kind |-> "result", shape |-> sh, data |-> <<>>, msg |-> ""] :
             sh \in {"pair_nonlist", "nonpair"} }

\* The texts of the exceptions a module's run may raise.
ErrorMessages == {"connection reset", NoneFound}

Raised(msg) == [kind |-> "exception", shape |-> "", data |-> <<>>, msg |-> msg]

NoResult == [kind |-> "none", shape |-> "", data |-> <<>>, msg |-> ""]

TimeoutText == "Module timed out after " \o ToString(module_timeout) \o "s"

\* The synthetic result of a timed-out module.
TimeoutResult(name) ==
    [kind |-> "result", shape |-> "pair", msg |-> "",
     data |-> << [label |-> "Timeout", value |-> TimeoutText,
                  source |-> name, risk |-> "medium"] >>]

\* The finding scan() makes of a module result that is an exception.
ErrorFinding(name, r) ==
    [label |-> "Error", value |-> r.msg, source |-> name, risk |-> "high"]

\* ------------------------------------------------------------ progress
\* The progress sinks a caller may pass as progress_cb.
Sinks == {"absent", "present", "raises"}

\* _emit_progress as a call that lets the exception of the sink out.
emit_progress_unguarded(s) ==
    [delivered |-> s # "absent", raised |-> s = "raises"]

\* XsintEngine._emit_progress: nothing is done without a sink, and an
\* Exception the sink raises is swallowed.
emit_progress(s) ==
    [delivered |-> s # "absent", raised |-> FALSE]

\* The events handed to _emit_progress, added to those the sink was called
\* with.
Deliver(log, evs) ==
    IF emit_progress(sink).delivered THEN log \o evs ELSE log

\* scan() raised out of _emit_progress.
ScanRaised ==
    [returned |-> TRUE, type |-> "<raised>", results |-> <<>>,
     error |-> [text |-> "progress sink raised", hints |-> <<>>]]

\* What scan() returns after its calls of _emit_progress.
AfterProgress(r) == IF emit_progress(sink).raised THEN ScanRaised ELSE r

ModEvent(ev, name, status, err) ==
    [event |-> ev, module |-> name, status |-> status, error |-> err]

\* ------------------------------------------------------------- scan()
\* The loop of scan() over module_results: what one result adds to
\* final_data.
Contribution(name, r) ==
    IF r.kind = "exception" THEN <<ErrorFinding(name, r)>>
    ELSE IF r.shape = "pair" THEN r.data
    ELSE <<>>

\* Collect as a loop that leaves at the first exception instead of going on.
RECURSIVE CollectStopsAtError(_, _)
CollectStopsAtError(names, results) ==
    IF names = <<>> THEN <<>>
    ELSE IF results[Head(names)].kind = "exception"
         THEN Contribution(Head(names), results[Head(names)])
         ELSE Contribution(Head(names), results[Head(names)])
              \o CollectStopsAtError(Tail(names), results)

RECURSIVE Collect(_, _)
Collect(names, results) ==
    IF names = <<>> THEN <<>>
    ELSE Contribution(Head(names), results[Head(names)])
         \o Collect(Tail(names), results)

\* FilterNoneFound as a filter that keeps everything.
FilterNothing(data) == data

\* The filter of scan(): drop the "None found" entries.
FilterNoneFound(data) == SelectSeq(data, LAMBDA r : r.value # NoneFound)

\* final_data as an aggregation that also drops repeated findings.
RECURSIVE Dedupe(_)
Dedupe(data) ==
    IF data = <<>> THEN <<>>
    ELSE LET front == Dedupe(SubSeq(data, 1, Len(data) - 1))
             last  == data[Len(data)]
         IN  IF last \in { front[i] : i \in DOMAIN front }
             THEN front ELSE Append(front, last)

final_data_deduplicated(names, results) ==
    Dedupe(SelectSeq(Collect(names, results), LAMBDA r : r.value # NoneFound))

\* final_data of scan(), from the gathered results in runner order.
final_data(names, results) == FilterNoneFound(Collect(names, results))

\* AmbiguousHints as a message that forgets one of the types.
AmbiguousHintsWithoutHash ==
    <<"email", "user", "phone", "ip", "addr", "name", "id", "ssn",
      "passport">>

\* The prefixes the "could not determine target type" message lists.
AmbiguousHints ==
    <<"email", "user", "phone", "ip", "addr", "name", "id", "ssn",
      "passport", "hash">>

NoError == [text |-> NoVal, hints |-> <<>>]

NotReturned == [returned |-> FALSE, type |-> NoVal, results |-> <<>>,
                error |-> NoError]

NoModulesFinding ==
    [label |-> "Status", value |-> "No modules found", source |-> "System",
     risk |-> "low"]

Detected == detect_target_type(target)
Loaded   == load_modules_for_type(installed, Detected[1], cred, haxalot)

RangeOf(seq) == { seq[i] : i \in DOMAIN seq }

\* The services whose key some installed module names, and whether an
\* installed module reads the haxalot set-up: only these parts of the
\* configuration are ever read, so only these are varied.
UsedServices(inst) == { ModuleTable[i].api_key : i \in inst } \cap Services
UsesHaxalot(inst) == \E i \in inst : ModuleTable[i].ready = "flag"

Unset == [env |-> NoVal, cfg |-> NoVal]

\* The environment of a scan as the command line makes it: a progress sink
\* is passed and XSINT_MODULE_TIMEOUT is not set.
DefaultEnv ==
    /\ sink = "present"
    /\ env_timeout = NoVal
    /\ module_timeout = DefaultModuleTimeout
    /\ NetUnused

\* A scan of XsintEngine is about to start, with one of the given sets of
\* module files installed.
ScanStart(insts) ==
    /\ engine = "xsint"
    /\ installed \in insts
    /\ cred \in { c \in [Services -> CredStates \cup {Unset}] :
                    \A s \in Services :
                       IF s \in UsedServices(installed)
                       THEN c[s] \in CredStates ELSE c[s] = Unset }
    /\ haxalot \in { h \in HaxalotStates :
                       UsesHaxalot(installed) \/ ~h.enabled }
    /\ target \in Targets
    /\ pc = "start"
    /\ runners = <<>>
    /\ task = [n \in ModNames |-> "none"]
    /\ behaviour = [n \in ModNames |-> ""]
    /\ res = [n \in ModNames |-> NoResult]
    /\ ran = [n \in ModNames |-> 0]
    /\ mainEvents = <<>>
    /\ modEvents = [n \in ModNames |-> <<>>]
    /\ ret = NotReturned
    /\ finished = <<>>
    /\ RegistryUnused
    /\ ParserUnused

Init ==
    /\ ScanStart({ S \in SUBSET ModIds : Cardinality(S) <= MaxModules })
    /\ DefaultEnv

DetectEvents ==
    << [event |-> "detect_start", target |-> target.text],
       [event |-> "detect_done", target_type |-> Detected[1],
        target |-> Detected[2]] >>

\* LoadedEvent as an event whose count also covers the skipped modules.
LoadedEventCountsSkipped ==
    [event |-> "modules_loaded", target_type |-> Detected[1],
     count |-> Len(Loaded.runners) + Len(Loaded.skipped),
     modules |-> Loaded.runners, skipped |-> Loaded.skipped]
LoadedEvent ==
    [event |-> "modules_loaded", target_type |-> Detected[1],
     count |-> Len(Loaded.runners), modules |-> Loaded.runners,
     skipped |-> Loaded.skipped]

\* ScanAmbiguous as an early return that emits no scan_done.
ScanAmbiguousSilent ==
    /\ engine = "xsint"
    /\ pc = "start"
    /\ Detected[1] = NoVal
    /\ mainEvents' = Deliver(<<>>, DetectEvents)
    /\ ret' = AfterProgress(
               [returned |-> TRUE, type |-> "AMBIGUOUS", results |-> <<>>,
                error |-> [text |-> "Could not determine target type.",
                           hints |-> AmbiguousHints]])
    /\ pc' = "returned"
    /\ UNCHANGED <<registryVars, parserVars, envVars, finished, engine,
                   installed, cred, haxalot, target, runners, task,
                   behaviour, res, ran, modEvents>>
\* scan(): the target type cannot be determined.
ScanAmbiguous ==
    /\ engine = "xsint"
    /\ pc = "start"
    /\ Detected[1] = NoVal
    /\ mainEvents' = Deliver(<<>>, DetectEvents
           \o << [event |-> "scan_done", status |-> "aborted"] >>)
    /\ ret' = AfterProgress(
               [returned |-> TRUE, type |-> "AMBIGUOUS", results |-> <<>>,
                error |-> [text |-> "Could not determine target type.",
                           hints |-> AmbiguousHints]])
    /\ pc' = "returned"
    /\ UNCHANGED <<registryVars, parserVars, envVars, finished, engine, installed, cred, haxalot,
                   target, runners, task,
                   behaviour, res, ran, modEvents>>

\* ScanNoModules as an early return with an empty result list.
ScanNoModulesEmpty ==
    /\ engine = "xsint"
    /\ pc = "start"
    /\ Detected[1] # NoVal
    /\ Loaded.runners = <<>>
    /\ mainEvents' = Deliver(<<>>, DetectEvents \o <<LoadedEvent>>
           \o << [event |-> "scan_done", status |-> "completed",
                  findings |-> 0, modules |-> 0] >>)
    /\ ret' = [returned |-> TRUE, type |-> Detected[1],
               results |-> <<>>, error |-> NoError]
    /\ pc' = "returned"
    /\ UNCHANGED <<registryVars, parserVars, envVars, finished, engine, installed, cred, haxalot,
                   target, runners, task,
                   behaviour, res, ran, modEvents>>

\* scan(): no module was loaded for the type.
ScanNoModules ==
    /\ engine = "xsint"
    /\ pc = "start"
    /\ Detected[1] # NoVal
    /\ Loaded.runners = <<>>
    /\ mainEvents' = Deliver(<<>>, DetectEvents \o <<LoadedEvent>>
           \o << [event |-> "scan_done", status |-> "completed",
                  findings |-> 1, modules |-> 0] >>)
    /\ ret' = AfterProgress(
               [returned |-> TRUE, type |-> Detected[1],
                results |-> <<NoModulesFinding>>, error |-> NoError])
    /\ pc' = "returned"
    /\ UNCHANGED <<registryVars, parserVars, envVars, finished, engine, installed, cred, haxalot,
                   target, runners, task,
                   behaviour, res, ran, modEvents>>

\* scan(): one task per runner is handed to asyncio.gather.
ScanLaunch ==
    /\ engine = "xsint"
    /\ pc = "start"
    /\ Detected[1] # NoVal
    /\ Loaded.runners # <<>>
    /\ mainEvents' = Deliver(<<>>, DetectEvents \o <<LoadedEvent>>)
    /\ runners' = Loaded.runners
    /\ task' = [n \in ModNames |->
                  IF n \in RangeOf(Loaded.runners) THEN "pending" ELSE "none"]
    /\ pc' = "gather"
    /\ UNCHANGED <<registryVars, parserVars, envVars, finished, engine, installed, cred, haxalot,
                   target, behaviour, res, ran,
                   modEvents, ret>>

\* _run_module_with_progress starts: module_start is emitted and the run
\* function is called under wait_for.  The module is one that completes on
\* its own, sooner or later, or one that never does.
ModuleStart(n) ==
    /\ engine = "xsint"
    /\ pc = "gather"
    /\ task[n] = "pending"
    /\ task' = [task EXCEPT ![n] = "running"]
    /\ \E b \in {"completes", "hangs"} :
          behaviour' = [behaviour EXCEPT ![n] = b]
    /\ ran' = [ran EXCEPT ![n] = @ + 1]
    /\ modEvents' = [modEvents EXCEPT
                       ![n] = Deliver(@, <<ModEvent("module_start", n, "",
                                                    "")>>)]
    /\ UNCHANGED <<registryVars, parserVars, envVars, finished, engine, installed, cred, haxalot,
                   target, pc, runners, res,
                   mainEvents, ret>>

\* The task of module n ends with the given status and result.  The order
\* in which the tasks end is recorded where a specification asks for it.
Finish(n, status, err, r) ==
    /\ task' = [task EXCEPT ![n] = "done"]
    /\ res' = [res EXCEPT ![n] = r]
    /\ modEvents' = [modEvents EXCEPT
                       ![n] = Deliver(@, <<ModEvent("module_done", n, status,
                                                    err)>>)]
    /\ UNCHANGED <<registryVars, parserVars, envVars, engine, installed, cred,
                   haxalot, target, pc, runners, behaviour,
                   ran, mainEvents, ret>>

\* RunReturns as a run function that goes on after its timeout was recorded
\* and whose late result replaces the Timeout outcome.
RunReturnsLate(n) ==
    /\ engine = "xsint"
    /\ pc = "gather"
    /\ \/ task[n] = "running"
       \/ task[n] = "done" /\ res[n] = TimeoutResult(n)
    /\ behaviour[n] = "completes"
    /\ \E r \in RunResults : Finish(n, "ok", "", r)
\* The run function returns before the timeout.
RunReturns(n) ==
    /\ engine = "xsint"
    /\ pc = "gather"
    /\ task[n] = "running"
    /\ behaviour[n] = "completes"
    /\ \E r \in RunResults : Finish(n, "ok", "", r)

\* RunRaises as an orchestrator that retries a module that raised.
RunRaisesRetry(n) ==
    /\ engine = "xsint"
    /\ pc = "gather"
    /\ task[n] = "running"
    /\ behaviour[n] = "completes"
    /\ \E msg \in ErrorMessages :
          /\ task' = [task EXCEPT ![n] = "pending"]
          /\ res' = [res EXCEPT ![n] = Raised(msg)]
          /\ modEvents' = [modEvents EXCEPT
                ![n] = Deliver(@, <<ModEvent("module_done", n, "error",
                                             msg)>>)]
    /\ UNCHANGED <<registryVars, parserVars, envVars, finished, engine, installed, cred, haxalot,
                   target, pc, runners, behaviour,
                   ran, mainEvents, ret>>

\* The run function raises an Exception before the timeout.
RunRaises(n) ==
    /\ engine = "xsint"
    /\ pc = "gather"
    /\ task[n] = "running"
    /\ behaviour[n] = "completes"
    /\ \E msg \in ErrorMessages : Finish(n, "error", msg, Raised(msg))

\* RunTimesOut as a run function awaited without a timeout.
RunNeverTimesOut(n) ==
    /\ FALSE
    /\ UNCHANGED vars

\* wait_for's timeout expires first: asyncio.TimeoutError.
RunTimesOut(n) ==
    /\ engine = "xsint"
    /\ pc = "gather"
    /\ task[n] = "running"
    /\ Finish(n, "timeout", "timeout after " \o ToString(module_timeout) \o "s",
              TimeoutResult(n))

\* GatherDone as a wait that returns when the first task is complete.
GatherFirstDone == \E n \in RangeOf(runners) : task[n] = "done"

\* asyncio.gather is complete when every task is.
GatherDone == \A n \in RangeOf(runners) : task[n] = "done"

\* ScanAggregate as an aggregation of the results in the order in which the
\* tasks ended.
ScanAggregateAsCompleted ==
    /\ engine = "xsint"
    /\ pc = "gather"
    /\ GatherDone
    /\ LET data == final_data(finished, res)
       IN  /\ mainEvents' = Deliver(mainEvents,
                 << [event |-> "scan_done", status |-> "completed",
                     findings |-> Len(data), modules |-> Len(runners)] >>)
           /\ ret' = AfterProgress(
                      [returned |-> TRUE, type |-> Detected[1],
                       results |-> data, error |-> NoError])
    /\ pc' = "returned"
    /\ UNCHANGED <<registryVars, parserVars, envVars, finished, engine,
                   installed, cred, haxalot, target, runners, task,
                   behaviour, res, ran, modEvents>>

\* scan() after the gather: aggregate, filter, emit scan_done, return.
ScanAggregate ==
    /\ engine = "xsint"
    /\ pc = "gather"
    /\ GatherDone
    /\ LET data == final_data(runners, res)
       IN  /\ mainEvents' = Deliver(mainEvents,
                 << [event |-> "scan_done", status |-> "completed",
                     findings |-> Len(data), modules |-> Len(runners)] >>)
           /\ ret' = AfterProgress(
                      [returned |-> TRUE, type |-> Detected[1],
                       results |-> data, error |-> NoError])
    /\ pc' = "returned"
    /\ UNCHANGED <<registryVars, parserVars, envVars, finished, engine, installed, cred, haxalot,
                   target, runners, task,
                   behaviour, res, ran, modEvents>>

Next ==
    \/ ScanAmbiguous
    \/ ScanNoModules
    \/ ScanLaunch
    \/ \E n \in ModNames : ModuleStart(n)
    \/ \E n \in ModNames : RunReturns(n) /\ UNCHANGED finished
    \/ \E n \in ModNames : RunRaises(n) /\ UNCHANGED finished
    \/ \E n \in ModNames : RunTimesOut(n) /\ UNCHANGED finished
    \/ ScanAggregate

Spec == Init /\ [][Next]_vars

\* The event loop runs whatever is runnable, and the timers fire.
FairSpec == Spec /\ WF_vars(Next)

\* ------------------------------------------------------- kiss/core.py
\* KissEngine: the same detection, key gate and aggregation as XsintEngine,
\* but no is_ready gate, no progress events, and the modules' coroutines are
\* gathered with return_exceptions=True and without a timeout.
\* The module table stands for its modules directory too; of a module it
\* reads only free, paid, api_key and whether it imports with a callable run.

\* kiss ConfigManager.get_api_key: the environment variable if it is not
\* empty, else whatever config.json holds (blank values included).
kiss_get_api_key(c, service) ==
    IF service \notin DOMAIN c THEN NoVal
    ELSE IF c[service].env \notin {NoVal, ""} THEN c[service].env
    ELSE c[service].cfg

\* The key gate of KissEngine._load_modules_for_type.
KissLocked(mod, ty, c) ==
    /\ ty \in mod.paid
    /\ ty \notin mod.free
    /\ mod.api_key # NoKey
    /\ kiss_get_api_key(c, mod.api_key) \in {NoVal, ""}

\* One iteration of the loop of KissEngine._load_modules_for_type.
KissLoadStep(mod, ty, c) ==
    IF ty \notin (mod.free \cup mod.paid) THEN "unsupported"
    ELSE IF KissLocked(mod, ty, c) THEN "locked"
    ELSE IF mod.load = "import_error" THEN "import_error"
    ELSE IF mod.load = "ok" THEN "runner"
    ELSE "no_run"

RECURSIVE KissLoadFrom(_, _, _)
KissLoadFrom(mods, ty, c) ==
    IF mods = <<>> THEN <<>>
    ELSE (IF KissLoadStep(Head(mods), ty, c) = "runner"
          THEN <<Head(mods).name>> ELSE <<>>)
         \o KissLoadFrom(Tail(mods), ty, c)

\* KissEngine._load_modules_for_type -> runners
kiss_load_modules_for_type(inst, ty, c) ==
    KissLoadFrom(scan_modules(inst), ty, c)

KissLoaded == kiss_load_modules_for_type(installed, Detected[1], cred)

\* The finding KissEngine.scan makes of a gathered exception.
KissErrorFinding(r) ==
    [label |-> "Error", value |-> r.msg, source |-> "System", risk |-> "high"]

\* The loop of KissEngine.scan over module_results.
KissContribution(r) ==
    IF r.kind = "exception" THEN <<KissErrorFinding(r)>>
    ELSE IF r.shape = "pair" THEN r.data
    ELSE <<>>

RECURSIVE KissCollect(_, _)
KissCollect(names, results) ==
    IF names = <<>> THEN <<>>
    ELSE KissContribution(results[Head(names)])
         \o KissCollect(Tail(names), results)

\* final_data of KissEngine.scan.
kiss_final_data(names, results) == FilterNoneFound(KissCollect(names, results))

KissInit ==
    /\ engine = "kiss"
    /\ installed \in { S \in SUBSET ModIds : Cardinality(S) <= MaxModules }
    /\ cred \in { c \in [Services -> CredStates \cup {Unset}] :
                    \A s \in Services :
                       s \notin UsedServices(installed) => c[s] = Unset }
    /\ haxalot = [enabled |-> FALSE, session |-> FALSE]
    /\ target \in Targets
    /\ pc = "start"
    /\ runners = <<>>
    /\ task = [n \in ModNames |-> "none"]
    /\ behaviour = [n \in ModNames |-> ""]
    /\ res = [n \in ModNames |-> NoResult]
    /\ ran = [n \in ModNames |-> 0]
    /\ mainEvents = <<>>
    /\ modEvents = [n \in ModNames |-> <<>>]
    /\ ret = NotReturned
    /\ finished = <<>>
    /\ sink = "absent" /\ env_timeout = NoVal /\ module_timeout = 0
    /\ NetUnused
    /\ RegistryUnused
    /\ ParserUnused

\* KissEngine.scan: the target type cannot be determined.
KissScanAmbiguous ==
    /\ engine = "kiss"
    /\ pc = "start"
    /\ Detected[1] = NoVal
    /\ ret' = [returned |-> TRUE, type |-> "AMBIGUOUS", results |-> <<>>,
               error |-> [text |-> "Could not determine target type.",
                          hints |-> AmbiguousHints]]
    /\ pc' = "returned"
    /\ UNCHANGED <<registryVars, parserVars, envVars, finished, engine, installed, cred, haxalot,
                   target, runners, task,
                   behaviour, res, ran, mainEvents, modEvents>>

\* KissEngine.scan: no module was loaded for the type.
KissScanNoModules ==
    /\ engine = "kiss"
    /\ pc = "start"
    /\ Detected[1] # NoVal
    /\ KissLoaded = <<>>
    /\ ret' = [returned |-> TRUE, type |-> Detected[1],
               results |-> <<NoModulesFinding>>, error |-> NoError]
    /\ pc' = "returned"
    /\ UNCHANGED <<registryVars, parserVars, envVars, finished, engine, installed, cred, haxalot,
                   target, runners, task,
                   behaviour, res, ran, mainEvents, modEvents>>

\* KissEngine.scan: one coroutine per runner is handed to asyncio.gather.
KissScanLaunch ==
    /\ engine = "kiss"
    /\ pc = "start"
    /\ Detected[1] # NoVal
    /\ KissLoaded # <<>>
    /\ runners' = KissLoaded
    /\ task' = [n \in ModNames |->
                  IF n \in RangeOf(KissLoaded) THEN "pending" ELSE "none"]
    /\ pc' = "gather"
    /\ UNCHANGED <<registryVars, parserVars, envVars, finished, engine, installed, cred, haxalot,
                   target, behaviour, res,
                   ran, mainEvents, modEvents, ret>>

\* The event loop starts the module's run coroutine.
KissModuleStart(n) ==
    /\ engine = "kiss"
    /\ pc = "gather"
    /\ task[n] = "pending"
    /\ task' = [task EXCEPT ![n] = "running"]
    /\ \E b \in {"completes", "hangs"} :
          behaviour' = [behaviour EXCEPT ![n] = b]
    /\ ran' = [ran EXCEPT ![n] = @ + 1]
    /\ UNCHANGED <<registryVars, parserVars, envVars, finished, engine, installed, cred, haxalot,
                   target, pc, runners, res,
                   mainEvents, modEvents, ret>>

\* The coroutine ends: it returns a value, or raises an Exception that
\* gather hands back as the module's result.
KissRunEnds(n) ==
    /\ engine = "kiss"
    /\ pc = "gather"
    /\ task[n] = "running"
    /\ behaviour[n] = "completes"
    /\ \E r \in RunResults \cup { Raised(msg) : msg \in ErrorMessages } :
          res' = [res EXCEPT ![n] = r]
    /\ task' = [task EXCEPT ![n] = "done"]
    /\ UNCHANGED <<registryVars, parserVars, envVars, finished, engine, installed, cred, haxalot,
                   target, pc, runners,
                   behaviour, ran, mainEvents, modEvents, ret>>

\* KissEngine.scan after the gather: aggregate, filter, return.
KissScanAggregate ==
    /\ engine = "kiss"
    /\ pc = "gather"
    /\ GatherDone
    /\ ret' = [returned |-> TRUE, type |-> Detected[1],
               results |-> kiss_final_data(runners, res), error |-> NoError]
    /\ pc' = "returned"
    /\ UNCHANGED <<registryVars, parserVars, envVars, finished, engine, installed, cred, haxalot,
                   target, runners, task,
                   behaviour, res, ran, mainEvents, modEvents>>

\* A scan of either engine.
EnginesInit == Init \/ KissInit

EnginesNext ==
    \/ ScanAmbiguous
    \/ ScanNoModules
    \/ ScanLaunch
    \/ \E n \in ModNames : ModuleStart(n)
    \/ \E n \in ModNames : RunReturns(n) /\ UNCHANGED finished
    \/ \E n \in ModNames : RunRaises(n) /\ UNCHANGED finished
    \/ \E n \in ModNames : RunTimesOut(n) /\ UNCHANGED finished
    \/ ScanAggregate
    \/ KissScanAmbiguous
    \/ KissScanNoModules
    \/ KissScanLaunch
    \/ \E n \in ModNames : KissModuleStart(n)
    \/ \E n \in ModNames : KissRunEnds(n)
    \/ KissScanAggregate

EnginesSpec == EnginesInit /\ [][EnginesNext]_vars

\* -------------------------------------------------- plugins/registry.py
\* At most this many plugin files are present in one location.
MaxPluginFiles == 2

\* A plugin class, as the registry sees it: where it is defined, the name
\* its get_metadata() gives, and whether get_metadata() raises.
PluginClass(cls, origin, name, metadata) ==
    [cls |-> cls, origin |-> origin, name |-> name, metadata |-> metadata]

HIBPPlugin       == PluginClass("HIBPPlugin", "builtin", "hibp", "ok")
HudsonRockPlugin == PluginClass("HudsonRockPlugin", "builtin", "hudson_rock", "ok")
IPInfoPlugin     == PluginClass("IPInfoPlugin", "builtin", "ipinfo", "ok")
StaleBuiltin     == PluginClass("StaleBuiltin", "builtin", "stale", "ok")
ShodanPlugin     == PluginClass("ShodanPlugin", "custom", "shodan", "ok")
CorpHIBP         == PluginClass("CorpHIBP", "custom", "hibp", "ok")
MyHIBP           == PluginClass("MyHIBP", "user", "hibp", "ok")
CustomHIBP       == PluginClass("CustomHIBP", "user", "hibp", "ok")
BadMeta          == PluginClass("BadMeta", "user", "", "raises")
WhoisPlugin      == PluginClass("WhoisPlugin", "user", "whois", "ok")
BrokenPlugin     == PluginClass("BrokenPlugin", "user", "broken", "ok")

\* A plugin file: the category directory it is in (0: none), whether loading
\* it raises, and the plugin classes in its namespace in the order dir()
\* lists them (sorted by name, imported classes included).
PluginFile(path, category, load, classes) ==
    [path |-> path, category |-> category, load |-> load, classes |-> classes]

\* The categories of _discover_builtin_plugins, by position.
Categories ==
    <<"breach_detection", "ip_intelligence", "identity", "hash_lookup",
      "phone", "username", "wifi">>

BuiltinFilePool ==
    { PluginFile("breach_detection/hibp.py", 1, "ok", <<HIBPPlugin>>),
      PluginFile("breach_detection/hudson_rock.py", 1, "ok",
                 <<HudsonRockPlugin>>),
      PluginFile("ip_intelligence/ipinfo.py", 2, "ok", <<IPInfoPlugin>>),
      PluginFile("identity/stale.py", 3, "raises", <<StaleBuiltin>>) }

CustomFilePool ==
    { PluginFile("corp_hibp.py", 0, "ok", <<CorpHIBP>>),
      PluginFile("shodan.py", 0, "ok", <<ShodanPlugin>>) }

\* my_hibp.py defines its own class; sub_hibp.py imports the built-in
\* HIBPPlugin and derives CustomHIBP from it; bad_meta.py holds a class whose
\* get_metadata raises next to a sound one; broken.py raises when loaded.
UserFilePool ==
    { PluginFile("my_hibp.py", 0, "ok", <<MyHIBP>>),
      PluginFile("sub_hibp.py", 0, "ok", <<CustomHIBP, HIBPPlugin>>),
      PluginFile("bad_meta.py", 0, "ok", <<BadMeta, WhoisPlugin>>),
      PluginFile("broken.py", 0, "raises", <<BrokenPlugin>>) }

\* The listings path.glob("*.py") may give of a directory holding some of the
\* files of a pool: any files, in any order.
Listings(files) ==
    { q \in UNION { [1..n -> files] : n \in 0..MaxPluginFiles } :
        \A i, j \in DOMAIN q : i # j => q[i] # q[j] }

\* The built-in files in the order discovery visits them: category by
\* category, in any order within one.
BuiltinListings ==
    { q \in Listings(BuiltinFilePool) :
        \A i, j \in DOMAIN q : i < j => q[i].category <= q[j].category }

\* The custom_paths arguments: none, the custom directory, or a path that
\* does not exist followed by the custom directory.
MissingDir == [exists |-> FALSE, files |-> <<>>]
CustomPathArgs(fs) ==
    { <<>>, <<[exists |-> TRUE, files |-> fs.custom]>>,
      <<MissingDir, [exists |-> TRUE, files |-> fs.custom]>> }

\* A dict as Python keeps it: entries in insertion order, one per key.
DictHas(d, k) == \E i \in DOMAIN d : d[i].key = k
DictGet(d, k) == d[CHOOSE i \in DOMAIN d : d[i].key = k].val
DictKeys(d) == [i \in DOMAIN d |-> d[i].key]

\* DictSet as a list that is appended to.
DictAppend(d, k, v) == Append(d, [key |-> k, val |-> v])

\* d[k] = v
DictSet(d, k, v) ==
    IF DictHas(d, k)
    THEN [i \in DOMAIN d |-> IF d[i].key = k THEN [key |-> k, val |-> v]
                             ELSE d[i]]
    ELSE Append(d, [key |-> k, val |-> v])

\* del d[k]
DictDel(d, k) == SelectSeq(d, LAMBDA e : e.key # k)

\* PluginRegistry.register -> the map and the value returned
register(d, c) ==
    IF c.metadata = "raises" THEN [plugins |-> d, ret |-> "False"]
    ELSE [plugins |-> DictSet(d, c.name, c), ret |-> "True"]

\* register_module_plugins as a loop that an exception of get_metadata ends.
RECURSIVE register_module_plugins_unguarded(_, _)
register_module_plugins_unguarded(d, classes) ==
    IF classes = <<>> \/ Head(classes).metadata = "raises" THEN d
    ELSE register_module_plugins_unguarded(register(d, Head(classes)).plugins,
                                           Tail(classes))

\* PluginRegistry._register_module_plugins
RECURSIVE register_module_plugins(_, _)
register_module_plugins(d, classes) ==
    IF classes = <<>> THEN d
    ELSE register_module_plugins(register(d, Head(classes)).plugins,
                                 Tail(classes))

\* The body of the loops of _discover_plugins_in_directory and
\* _discover_custom_plugins: load the file, register its classes; an
\* Exception is logged.
LoadPluginFile(d, f) ==
    IF f.load = "raises" THEN d ELSE register_module_plugins(d, f.classes)

RECURSIVE discover_plugins_in_directory(_, _)
discover_plugins_in_directory(d, files) ==
    IF files = <<>> THEN d
    ELSE discover_plugins_in_directory(LoadPluginFile(d, Head(files)),
                                       Tail(files))

\* PluginRegistry._discover_builtin_plugins
discover_builtin_plugins(d, fs) == discover_plugins_in_directory(d, fs.builtin)

\* PluginRegistry._discover_custom_plugins
discover_custom_plugins(d, dir) ==
    IF ~dir.exists THEN d ELSE discover_plugins_in_directory(d, dir.files)

RECURSIVE DiscoverPaths(_, _)
DiscoverPaths(d, paths) ==
    IF paths = <<>> THEN d
    ELSE DiscoverPaths(discover_custom_plugins(d, Head(paths)), Tail(paths))

UserDir(fs) == [exists |-> fs.user_exists, files |-> fs.user]

\* The three steps of discover_plugins: built-in, custom paths, user
\* directory.
discover_plugins(d, fs, paths) ==
    discover_custom_plugins(
        DiscoverPaths(discover_builtin_plugins(d, fs), paths), UserDir(fs))

\* PluginRegistry.get_all: a copy of the map.
get_all(d) == d

Call(op, cls, name, paths, returned, executed) ==
    [op |-> op, cls |-> cls, name |-> name, paths |-> paths,
     ret |-> returned, ran |-> executed]

RegistryInit ==
    /\ plugin_files \in
         { [builtin |-> b, custom |-> c, user |-> u, user_exists |-> e] :
             b \in BuiltinListings, c \in Listings(CustomFilePool),
             u \in Listings(UserFilePool), e \in BOOLEAN }
    /\ ~plugin_files.user_exists => plugin_files.user = <<>>
    /\ RegistryNew
    /\ ParserUnused
    /\ engine = "" /\ installed = {} /\ cred = <<>> /\ haxalot = <<>>
    /\ target = <<>> /\ pc = "" /\ runners = <<>> /\ task = <<>>
    /\ behaviour = <<>> /\ res = <<>> /\ ran = <<>> /\ mainEvents = <<>>
    /\ modEvents = <<>> /\ ret = NotReturned /\ EnvUnused

\* DiscoverPlugins as a call that discovers again each time.
DiscoverPluginsAgain ==
    \E paths \in CustomPathArgs(plugin_files) :
       /\ plugins' = discover_plugins(plugins, plugin_files, paths)
       /\ initialized' = TRUE
       /\ lastOp' = Call("discover_plugins", "", "", paths, "None", TRUE)
       /\ UNCHANGED <<plugin_files, scanVars, parserVars>>

\* PluginRegistry.discover_plugins(custom_paths)
DiscoverPlugins ==
    \E paths \in CustomPathArgs(plugin_files) :
       /\ IF initialized
          THEN /\ UNCHANGED <<plugins, initialized>>
               /\ lastOp' = Call("discover_plugins", "", "", paths, "None",
                                 FALSE)
          ELSE /\ plugins' = discover_plugins(plugins, plugin_files, paths)
               /\ initialized' = TRUE
               /\ lastOp' = Call("discover_plugins", "", "", paths, "None",
                                 TRUE)
       /\ UNCHANGED <<plugin_files, scanVars, parserVars>>

\* The classes a caller of register() hands in directly.
DirectClasses == {CorpHIBP, BadMeta}

\* PluginRegistry.register(plugin_class)
Register ==
    \E c \in DirectClasses :
       /\ plugins' = register(plugins, c).plugins
       /\ lastOp' = Call("register", c.cls, "", <<>>,
                         register(plugins, c).ret, TRUE)
       /\ UNCHANGED <<plugin_files, initialized, scanVars, parserVars>>

\* PluginRegistry.unregister(name)
Unregister ==
    \E name \in {"hibp", "nope"} :
       /\ plugins' = IF DictHas(plugins, name) THEN DictDel(plugins, name)
                     ELSE plugins
       /\ lastOp' = Call("unregister", "", name, <<>>,
                         IF DictHas(plugins, name) THEN "True" ELSE "False",
                         TRUE)
       /\ UNCHANGED <<plugin_files, initialized, scanVars, parserVars>>

\* PluginRegistry.reset()
Reset ==
    /\ plugins' = <<>>
    /\ initialized' = FALSE
    /\ lastOp' = Call("reset", "", "", <<>>, "None", TRUE)
    /\ UNCHANGED <<plugin_files, scanVars, parserVars>>

RegistryNext ==
    \/ DiscoverPlugins
    \/ Register
    \/ Unregister
    \/ Reset

RegistrySpec == RegistryInit /\ [][RegistryNext]_vars

\* ---------------------------------------------------------------- strings
\* Python strings are TLA+ strings; a character is a string of length one.
Chr(s, i) == SubSeq(s, i, i)
From(s, i) == SubSeq(s, i, Len(s))

LowerAlphabet == "abcdefghijklmnopqrstuvwxyz"
UpperAlphabet == "ABCDEFGHIJKLMNOPQRSTUVWXYZ"
Digits == {"0", "1", "2", "3", "4", "5", "6", "7", "8", "9"}
LowerLetters == { Chr(LowerAlphabet, i) : i \in 1..Len(LowerAlphabet) }
UpperLetters == { Chr(UpperAlphabet, i) : i \in 1..Len(UpperAlphabet) }
Letters == LowerLetters \cup UpperLetters
Alnum == Letters \cup Digits
LowerHex == Digits \cup {"a", "b", "c", "d", "e", "f"}
Hex == LowerHex \cup {"A", "B", "C", "D", "E", "F"}
WordChars == Alnum \cup {"_"}      \* \w
Whitespace == {" "}                \* \s

AllIn(s, cs) == \A i \in 1..Len(s) : Chr(s, i) \in cs
Contains(s, c) == \E i \in 1..Len(s) : Chr(s, i) = c
StartsWith(s, p) == Len(s) >= Len(p) /\ SubSeq(s, 1, Len(p)) = p
EndsWith(s, p) ==
    Len(s) >= Len(p) /\ SubSeq(s, Len(s) - Len(p) + 1, Len(s)) = p
CountIn(s, cs) == Cardinality({ i \in 1..Len(s) : Chr(s, i) \in cs })

\* The index of the first c in s, or 0.
IndexOf(s, c) ==
    IF Contains(s, c)
    THEN CHOOSE i \in 1..Len(s) :
            Chr(s, i) = c /\ \A j \in 1..(i - 1) : Chr(s, j) # c
    ELSE 0

\* s.split(c)
RECURSIVE Split(_, _)
Split(s, c) ==
    IF IndexOf(s, c) = 0 THEN <<s>>
    ELSE <<SubSeq(s, 1, IndexOf(s, c) - 1)>>
         \o Split(From(s, IndexOf(s, c) + 1), c)

\* str.lower()
LowerChar(c) ==
    IF c \in UpperLetters
    THEN Chr(LowerAlphabet,
             CHOOSE i \in 1..Len(UpperAlphabet) : Chr(UpperAlphabet, i) = c)
    ELSE c

RECURSIVE str_lower(_)
str_lower(s) ==
    IF s = "" THEN "" ELSE LowerChar(Chr(s, 1)) \o str_lower(From(s, 2))

\* str.upper()
UpperChar(c) ==
    IF c \in LowerLetters
    THEN Chr(UpperAlphabet,
             CHOOSE i \in 1..Len(LowerAlphabet) : Chr(LowerAlphabet, i) = c)
    ELSE c

RECURSIVE str_upper(_)
str_upper(s) ==
    IF s = "" THEN "" ELSE UpperChar(Chr(s, 1)) \o str_upper(From(s, 2))

\* str.replace(old, new) for single characters
RECURSIVE str_replace(_, _, _)
str_replace(s, old, new) ==
    IF s = "" THEN ""
    ELSE (IF Chr(s, 1) = old THEN new ELSE Chr(s, 1))
         \o str_replace(From(s, 2), old, new)

\* str.lstrip(chars), str.rstrip(chars), str.strip()
RECURSIVE str_lstrip(_, _)
str_lstrip(s, cs) ==
    IF s # "" /\ Chr(s, 1) \in cs THEN str_lstrip(From(s, 2), cs) ELSE s

RECURSIVE str_rstrip(_, _)
str_rstrip(s, cs) ==
    IF s # "" /\ Chr(s, Len(s)) \in cs
    THEN str_rstrip(SubSeq(s, 1, Len(s) - 1), cs) ELSE s

str_strip(s) == str_rstrip(str_lstrip(s, Whitespace), Whitespace)

\* int(s) of a string of decimal digits
DigitValue(c) == CHOOSE v \in 0..9 : Chr("0123456789", v + 1) = c

RECURSIVE ToInt(_)
ToInt(s) ==
    IF s = "" THEN 0
    ELSE 10 * ToInt(SubSeq(s, 1, Len(s) - 1)) + DigitValue(Chr(s, Len(s)))

\* \b at the gap before character i (1..Len(s)+1)
IsWordAt(s, i) == i >= 1 /\ i <= Len(s) /\ Chr(s, i) \in WordChars
WordBoundary(s, i) == IsWordAt(s, i - 1) # IsWordAt(s, i)

\* ----------------------------------------------------- constants.py
\* INPUT_PATTERNS["email"], matched against the whole string
EmailPattern(s) ==
    \E a \in 2..Len(s) :
       /\ Chr(s, a) = "@"
       /\ AllIn(SubSeq(s, 1, a - 1),
                Alnum \cup {".", "_", "%", "+", "-"})
       /\ \E d \in (a + 2)..(Len(s) - 2) :
             /\ Chr(s, d) = "."
             /\ AllIn(SubSeq(s, a + 1, d - 1), Alnum \cup {".", "-"})
             /\ AllIn(From(s, d + 1), Letters)

\* INPUT_PATTERNS["phone"]
PhonePattern(s) ==
    LET body == IF StartsWith(s, "+") THEN From(s, 2) ELSE s
    IN  /\ Len(body) >= 10
        /\ AllIn(body, Digits \cup Whitespace \cup {"-", "(", ")"})

\* One octet of INPUT_PATTERNS["ip"]: 25[0-5]|2[0-4][0-9]|[01]?[0-9][0-9]?
OctetPattern(o) ==
    /\ Len(o) \in 1..3
    /\ AllIn(o, Digits)
    /\ Len(o) = 3 => (Chr(o, 1) \in {"0", "1"} \/ ToInt(o) <= 255)

\* INPUT_PATTERNS["ip"]
IpPattern(s) ==
    /\ Len(Split(s, ".")) = 4
    /\ \A i \in 1..4 : OctetPattern(Split(s, ".")[i])

\* One label of INPUT_PATTERNS["domain"]
LabelPattern(l) ==
    /\ Len(l) \in 2..63
    /\ Chr(l, 1) \in Alnum
    /\ Chr(l, Len(l)) \in Alnum
    /\ AllIn(l, Alnum \cup {"-"})

\* INPUT_PATTERNS["domain"]
DomainPattern(s) ==
    \A i \in DOMAIN Split(s, ".") : LabelPattern(Split(s, ".")[i])

\* INPUT_PATTERNS["bssid"], with the separators given
SeparatedOctets(s, seps) ==
    /\ Len(s) = 17
    /\ \A i \in 1..17 :
          IF i % 3 = 0 THEN Chr(s, i) \in seps ELSE Chr(s, i) \in Hex

BssidPattern(s) == SeparatedOctets(s, {":", "-"})

\* ------------------------------------------------ scanner/detectors.py
\* ipaddress.IPv4Address(s) without the range check on the octets
IsIPv4_any_octet(s) ==
    /\ Len(Split(s, ".")) = 4
    /\ \A i \in 1..4 :
          LET o == Split(s, ".")[i]
          IN  /\ Len(o) \in 1..3
              /\ AllIn(o, Digits)
              /\ Len(o) > 1 => Chr(o, 1) # "0"

\* ipaddress.IPv4Address(s)
IsIPv4(s) ==
    /\ Len(Split(s, ".")) = 4
    /\ \A i \in 1..4 :
          LET o == Split(s, ".")[i]
          IN  /\ Len(o) \in 1..3
              /\ AllIn(o, Digits)
              /\ Len(o) > 1 => Chr(o, 1) # "0"
              /\ ToInt(o) <= 255

Hextet(h) == Len(h) \in 1..4 /\ AllIn(h, Hex)

\* ipaddress.IPv6Address(s), for strings without a scope id or an embedded
\* IPv4 address
IsIPv6(s) ==
    LET parts == Split(s, ":")
        n     == Len(parts)
        skips == { i \in 2..(n - 1) : parts[i] = "" }
    IN  /\ n >= 3 /\ n <= 9
        /\ ~Contains(parts[n], ".")
        /\ Cardinality(skips) <= 1
        /\ IF skips # {}
           THEN LET k  == CHOOSE i \in skips : TRUE
                    hi == IF parts[1] = "" THEN k - 2 ELSE k - 1
                    lo == IF parts[n] = "" THEN n - k - 1 ELSE n - k
                IN  /\ parts[1] = "" => hi = 0
                    /\ parts[n] = "" => lo = 0
                    /\ hi + lo <= 7
                    /\ \A i \in 1..hi : Hextet(parts[i])
                    /\ \A i \in (n - lo + 1)..n : Hextet(parts[i])
           ELSE /\ n = 8
                /\ \A i \in 1..n : Hextet(parts[i])

\* is_ip_address: ipaddress.ip_address(s) does not raise
is_ip_address(s) == IsIPv4(s) \/ IsIPv6(s)

is_email(s) == EmailPattern(s)

is_phone_number(s) ==
    /\ CountIn(s, Digits \cup {"+"}) >= 10
    /\ PhonePattern(s)

is_username(s) ==
    LET username == str_lstrip(s, {"@"})
    IN  /\ Len(username) >= 3 /\ Len(username) <= 30
        /\ AllIn(username, Alnum \cup {"_", "-"})
        /\ ~AllIn(username, Digits)

\* \b<word>\b somewhere in s, for one of the words
HasWord(s, words) ==
    \E w \in words :
       \E i \in 1..(Len(s) - Len(w) + 1) :
          /\ SubSeq(s, i, i + Len(w) - 1) = w
          /\ WordBoundary(s, i)
          /\ WordBoundary(s, i + Len(w))

StreetTypes ==
    {"st", "street", "ave", "avenue", "rd", "road", "blvd", "boulevard",
     "dr", "drive", "ct", "court", "ln", "lane", "way", "pl", "place"}

\* \b\d+\s+[A-Za-z0-9\s]+\b somewhere in s
HasStreetNumber(s) ==
    \E i \in 1..Len(s) :
       \E j \in (i + 1)..Len(s) :
          \E l \in (j + 2)..(Len(s) + 1) :
             /\ WordBoundary(s, i)
             /\ AllIn(SubSeq(s, i, j - 1), Digits)
             /\ Chr(s, j) \in Whitespace
             /\ AllIn(SubSeq(s, j, l - 1), Alnum \cup Whitespace)
             /\ WordBoundary(s, l)

\* ,\s*[A-Za-z\s]+\d{5}? somewhere in s: the five digits are required
HasCityZip(s) ==
    \E i \in 1..Len(s) :
       \E l \in (i + 2)..(Len(s) - 4) :
          /\ Chr(s, i) = ","
          /\ AllIn(SubSeq(s, i + 1, l - 1), Letters \cup Whitespace)
          /\ AllIn(SubSeq(s, l, l + 4), Digits)

Indicator(b) == IF b THEN 1 ELSE 0

is_address(s) ==
    LET address_text == str_lower(s)
    IN  Indicator(HasStreetNumber(address_text))
        + Indicator(HasWord(address_text, StreetTypes))
        + Indicator(HasWord(address_text, {"city", "town", "village"}))
        + Indicator(HasCityZip(address_text)) >= 2

is_bssid(s) ==
    LET bssid_str == IF Contains(s, "|")
                     THEN str_strip(Split(s, "|")[1]) ELSE s
    IN  \/ BssidPattern(bssid_str)
        \/ Len(bssid_str) = 12 /\ AllIn(bssid_str, Hex)

is_domain(s) ==
    /\ Contains(s, ".")
    /\ ~Contains(s, "@")
    /\ ~(\E k \in 1..(Len(s) - 2) :
            /\ AllIn(SubSeq(s, 1, k), Digits)
            /\ Chr(s, k + 1) = "."
            /\ Chr(s, k + 2) \in Digits)
    /\ DomainPattern(s)
    /\ LET parts == Split(s, ".")
           tld   == parts[Len(parts)]
       IN  /\ Len(tld) >= 2 /\ Len(tld) <= 10
           /\ AllIn(tld, Letters)

\* detect_hash_type -> the name of the hash type, or None
detect_hash_type(s) ==
    LET hash_str == str_lower(str_strip(s))
        hex      == hash_str # "" /\ AllIn(hash_str, LowerHex)
    IN  IF Len(hash_str) = 32 /\ hex THEN "MD5"
        ELSE IF Len(hash_str) = 40 /\ hex THEN "SHA1"
        ELSE IF Len(hash_str) = 56 /\ hex THEN "SHA224"
        ELSE IF Len(hash_str) = 64 /\ hex THEN "SHA256"
        ELSE IF Len(hash_str) = 96 /\ hex THEN "SHA384"
        ELSE IF Len(hash_str) = 128 /\ hex THEN "SHA512"
        ELSE IF /\ Len(hash_str) = 41
                /\ StartsWith(hash_str, "*")
                /\ AllIn(From(hash_str, 2), LowerHex)
             THEN "MySQL 4.1+"
        ELSE IF /\ Len(hash_str) = 60
                /\ \E p \in {"$2$", "$2a$", "$2b$", "$2y$"} :
                      /\ StartsWith(hash_str, p)
                      /\ AllIn(SubSeq(hash_str, Len(p) + 1, Len(p) + 2),
                               Digits)
                      /\ Chr(hash_str, Len(p) + 3) = "$"
             THEN "bcrypt"
        ELSE IF StartsWith(hash_str, "$argon2") THEN "Argon2"
        ELSE NoVal

\* detect_input_type as a classifier that tries the phone rule before the
\* BSSID rule.
detect_input_type_phone_first(input_value) ==
    LET v == str_strip(input_value)
    IN  IF input_value = "" THEN NoVal
        ELSE IF is_ip_address(v) THEN "IP"
        ELSE IF is_phone_number(v) THEN "PHONE"
        ELSE IF is_bssid(v) THEN "WIFI"
        ELSE IF detect_hash_type(v) # NoVal THEN "HASH"
        ELSE IF is_email(v) THEN "EMAIL"
        ELSE IF is_domain(v) THEN "DOMAIN"
        ELSE IF is_username(v) THEN "USERNAME"
        ELSE IF is_address(v) THEN "ADDRESS"
        ELSE NoVal

\* detect_input_type(input_value) -> a ScanType value, or None
detect_input_type(input_value) ==
    LET v == str_strip(input_value)
    IN  IF input_value = "" THEN NoVal
        ELSE IF is_ip_address(v) THEN "IP"
        ELSE IF is_bssid(v) THEN "WIFI"
        ELSE IF detect_hash_type(v) # NoVal THEN "HASH"
        ELSE IF is_email(v) THEN "EMAIL"
        ELSE IF is_phone_number(v) THEN "PHONE"
        ELSE IF is_domain(v) THEN "DOMAIN"
        ELSE IF is_username(v) THEN "USERNAME"
        ELSE IF is_address(v) THEN "ADDRESS"
        ELSE NoVal

\* ------------------------------------------------------ query_parser.py
FIELD_SCAN_TYPES ==
    [f \in {"email", "mail", "e-mail"} |-> "EMAIL"]
    @@ [f \in {"ip", "ipv4", "ipv6"} |-> "IP"]
    @@ [f \in {"address", "addr", "location"} |-> "ADDRESS"]
    @@ [f \in {"phone", "tel", "mobile"} |-> "PHONE"]
    @@ [f \in {"username", "user", "handle"} |-> "USERNAME"]
    @@ [f \in {"hash", "password", "pwd"} |-> "HASH"]
    @@ [f \in {"domain"} |-> "DOMAIN"]
    @@ [f \in {"bssid", "ssid", "wifi", "mac"} |-> "WIFI"]
    @@ [f \in {"name"} |-> "NAME"]

BcryptPrefix(s) == \E p \in {"$2$", "$2a$", "$2b$", "$2y$"} : StartsWith(s, p)

\* FIELD_VALIDATORS["hash"]: ^[a-fA-F0-9]{32,128}$|^\$2[aby]?\$.+|^\$argon2
HashValidator(v) ==
    \/ Len(v) >= 32 /\ Len(v) <= 128 /\ AllIn(v, Hex)
    \/ \E p \in {"$2$", "$2a$", "$2b$", "$2y$"} :
          StartsWith(v, p) /\ Len(v) > Len(p)
    \/ StartsWith(v, "$argon2")

\* FIELD_VALIDATORS[canonical].match(value); TRUE where there is no validator
FieldValid(canonical, v) ==
    CASE canonical = "email"  -> EmailPattern(v)
      [] canonical = "ip"     -> IpPattern(v)
      [] canonical = "phone"  -> PhonePattern(v)
      [] canonical = "bssid"  -> BssidPattern(v)
      [] canonical = "hash"   -> HashValidator(v)
      [] canonical = "domain" -> DomainPattern(v)
      [] OTHER                -> TRUE

\* The end of the longest run of characters in cs (outside cs) that starts
\* at i; i - 1 if there is none.
RunEnd(s, i, cs) ==
    CHOOSE j \in (i - 1)..Len(s) :
       /\ AllIn(SubSeq(s, i, j), cs)
       /\ j = Len(s) \/ Chr(s, j + 1) \notin cs

RunEndNot(s, i, cs) ==
    CHOOSE j \in (i - 1)..Len(s) :
       /\ \A k \in i..j : Chr(s, k) \notin cs
       /\ j = Len(s) \/ Chr(s, j + 1) \in cs

NoMatch == [ok |-> FALSE, field |-> "", value |-> "", end |-> 0]

\* The quoted alternative of field_pattern at v: q, one or more characters
\* other than q, q.
QuotedAt(s, v, q) ==
    /\ v <= Len(s) /\ Chr(s, v) = q
    /\ RunEndNot(s, v + 1, {q}) >= v + 1
    /\ RunEndNot(s, v + 1, {q}) < Len(s)

\* field_pattern matched at position i:
\* (\w+):\s*(?:"([^"]+)"|'([^']+)'|(\S+))
MatchFieldAt(s, i) ==
    LET fe == RunEnd(s, i, WordChars)
        v  == RunEnd(s, fe + 2, Whitespace) + 1
    IN  IF ~(fe >= i /\ fe < Len(s) /\ Chr(s, fe + 1) = ":") THEN NoMatch
        ELSE IF QuotedAt(s, v, "\"")
        THEN [ok |-> TRUE, field |-> SubSeq(s, i, fe),
              value |-> SubSeq(s, v + 1, RunEndNot(s, v + 1, {"\""})),
              end |-> RunEndNot(s, v + 1, {"\""}) + 1]
        ELSE IF QuotedAt(s, v, "'")
        THEN [ok |-> TRUE, field |-> SubSeq(s, i, fe),
              value |-> SubSeq(s, v + 1, RunEndNot(s, v + 1, {"'"})),
              end |-> RunEndNot(s, v + 1, {"'"}) + 1]
        ELSE IF RunEndNot(s, v, Whitespace) >= v
        THEN [ok |-> TRUE, field |-> SubSeq(s, i, fe),
              value |-> SubSeq(s, v, RunEndNot(s, v, Whitespace)),
              end |-> RunEndNot(s, v, Whitespace)]
        ELSE NoMatch

\* field_pattern.search(s) from position i on: the leftmost match
RECURSIVE SearchField(_, _)
SearchField(s, i) ==
    IF i > Len(s) THEN NoMatch
    ELSE IF MatchFieldAt(s, i).ok THEN MatchFieldAt(s, i)
    ELSE SearchField(s, i + 1)

\* field_pattern.findall(s) from position i on
RECURSIVE FindFields(_, _)
FindFields(s, i) ==
    LET m == SearchField(s, i)
    IN  IF ~m.ok THEN <<>> ELSE <<m>> \o FindFields(s, m.end + 1)

\* QueryParser._is_structured_query
is_structured_query(q) ==
    LET qs == str_strip(q)
        m     == SearchField(q, 1)
    IN  IF BssidPattern(qs) THEN FALSE
        ELSE IF SeparatedOctets(qs, {"-"}) THEN FALSE
        ELSE IF Contains(q, "|") /\ BssidPattern(str_strip(Split(q, "|")[1]))
        THEN FALSE
        ELSE m.ok /\ str_lower(m.field) \in DOMAIN FIELD_SCAN_TYPES

\* QueryParser._detect_type
detect_type(t) ==
    LET text == str_strip(t)
    IN  IF EmailPattern(text) THEN "EMAIL"
        ELSE IF IpPattern(text) THEN "IP"
        ELSE IF PhonePattern(text) THEN "PHONE"
        ELSE IF BssidPattern(text) THEN "WIFI"
        ELSE IF Contains(text, "|")
                /\ BssidPattern(str_strip(Split(text, "|")[1]))
        THEN "WIFI"
        ELSE IF Len(text) \in {32, 40, 64} /\ AllIn(text, Hex) THEN "HASH"
        ELSE IF BcryptPrefix(text) THEN "HASH"
        ELSE IF StartsWith(text, "@") THEN "USERNAME"
        ELSE IF StartsWith(text, "\"") /\ EndsWith(text, "\"")
        THEN "ADDRESS"
        ELSE IF Contains(text, ",") /\ Len(text) > 20 THEN "ADDRESS"
        ELSE IF /\ DomainPattern(text) /\ Contains(text, ".")
                /\ ~Contains(text, "@") /\ Chr(text, 1) \notin Digits
        THEN "DOMAIN"
        ELSE IF /\ Len(text) >= 3 /\ Len(text) <= 30
                /\ AllIn(text, WordChars \cup {"-", "."})
        THEN "USERNAME"
        ELSE NoVal

ParsedQuery(raw, qtype, stype, ptarget, flds, errs, valid) ==
    [done |-> TRUE, raw_query |-> raw, query_type |-> qtype,
     scan_type |-> stype, primary_target |-> ptarget, fields |-> flds,
     errors |-> errs, is_valid |-> valid]

\* parse_simple as a parse that leaves is_valid set when no type is found.
parse_simple_always_valid(qs) ==
    IF detect_type(qs) = NoVal
    THEN ParsedQuery(qs, "simple", NoVal, qs, <<>>,
                     <<"Could not determine query type for: " \o qs>>,
                     TRUE)
    ELSE ParsedQuery(qs, "simple", detect_type(qs), qs, <<>>, <<>>,
                     TRUE)

\* QueryParser._parse_simple
parse_simple(qs) ==
    IF detect_type(qs) = NoVal
    THEN ParsedQuery(qs, "simple", NoVal, qs, <<>>,
                     <<"Could not determine query type for: " \o qs>>,
                     FALSE)
    ELSE ParsedQuery(qs, "simple", detect_type(qs), qs, <<>>, <<>>,
                     TRUE)

\* QueryParser._get_canonical_field
get_canonical_field(f) ==
    CASE f \in {"mail", "e-mail"}     -> "email"
      [] f \in {"ipv4", "ipv6"}       -> "ip"
      [] f \in {"addr", "location"}   -> "address"
      [] f \in {"tel", "mobile"}      -> "phone"
      [] f \in {"user", "handle"}     -> "username"
      [] f \in {"password", "pwd"}    -> "hash"
      [] f \in {"wifi", "mac"}        -> "bssid"
      [] OTHER                        -> f

\* The loop of _parse_structured over the matches: the scan types found,
\* the fields and the errors.
RECURSIVE ScanFields(_, _)
ScanFields(matches, acc) ==
    IF matches = <<>> THEN acc
    ELSE LET field_name == str_lower(Head(matches).field)
             value      == Head(matches).value
         IN  ScanFields(Tail(matches),
               IF value = ""
               THEN [acc EXCEPT !.errors =
                       Append(@, "Empty value for field: " \o field_name)]
               ELSE IF field_name \in DOMAIN FIELD_SCAN_TYPES
               THEN [types  |-> acc.types \cup {FIELD_SCAN_TYPES[field_name]},
                     fields |-> DictSet(acc.fields, field_name, value),
                     errors |->
                        IF FieldValid(get_canonical_field(field_name), value)
                        THEN acc.errors
                        ELSE Append(acc.errors,
                                    "Invalid format for " \o field_name
                                    \o ": " \o value)]
               ELSE [acc EXCEPT !.errors =
                       Append(@, "Unknown field: " \o field_name)])

\* The priority list of _parse_structured.
priority ==
    <<"EMAIL", "IP", "PHONE", "WIFI", "USERNAME", "ADDRESS", "HASH",
      "DOMAIN", "NAME">>

\* The first entry of a list that is in a set, or None.
FirstIn(list, set) ==
    IF \E i \in DOMAIN list : list[i] \in set
    THEN list[CHOOSE i \in DOMAIN list :
                 list[i] \in set /\ \A j \in 1..(i - 1) : list[j] \notin set]
    ELSE NoVal

type_to_field ==
    ("EMAIL" :> <<"email", "mail", "e-mail">>)
    @@ ("IP" :> <<"ip", "ipv4", "ipv6">>)
    @@ ("PHONE" :> <<"phone", "tel", "mobile">>)
    @@ ("USERNAME" :> <<"username", "user", "handle">>)
    @@ ("ADDRESS" :> <<"address", "addr", "location">>)
    @@ ("HASH" :> <<"hash", "password", "pwd">>)
    @@ ("DOMAIN" :> <<"domain">>)
    @@ ("WIFI" :> <<"bssid", "ssid", "wifi", "mac">>)
    @@ ("NAME" :> <<"name">>)

\* QueryParser._get_primary_target
get_primary_target(scan_type, flds) ==
    IF /\ scan_type \in DOMAIN type_to_field
       /\ FirstIn(type_to_field[scan_type], RangeOf(DictKeys(flds))) # NoVal
    THEN DictGet(flds, FirstIn(type_to_field[scan_type],
                               RangeOf(DictKeys(flds))))
    ELSE IF flds # <<>> THEN flds[1].val
    ELSE ""

\* QueryParser._parse_structured
parse_structured(qs) ==
    LET matches == FindFields(qs, 1)
        found   == ScanFields(matches,
                              [types |-> {}, fields |-> <<>>, errors |-> <<>>])
        stype   == FirstIn(priority, found.types)
    IN  IF matches = <<>>
        THEN ParsedQuery(qs, "structured", NoVal, "", <<>>,
                         <<"No valid field:value pairs found">>, FALSE)
        ELSE ParsedQuery(qs, "structured", stype,
                         IF found.types # {}
                         THEN get_primary_target(stype, found.fields) ELSE "",
                         found.fields, found.errors, found.errors = <<>>)

\* QueryParser.parse
parse(q) ==
    LET qs == str_strip(q)
    IN  IF qs = ""
        THEN ParsedQuery(qs, "simple", NoVal, "", <<>>, <<"Empty query">>,
                         FALSE)
        ELSE IF is_structured_query(qs) THEN parse_structured(qs)
        ELSE parse_simple(qs)

\* fields.get(a) or fields.get(b) or ...: the first value that is there and
\* not empty, or the last one looked up.
RECURSIVE GetOr(_, _)
GetOr(flds, keys) ==
    LET v == IF DictHas(flds, Head(keys)) THEN DictGet(flds, Head(keys))
             ELSE NoVal
    IN  IF Len(keys) = 1 \/ (v # NoVal /\ v # "") THEN v
        ELSE GetOr(flds, Tail(keys))

\* The normalisation at the end of get_wifi_components:
\* bssid.replace("-", ":").upper()
normalize_bssid(b) == str_upper(str_replace(b, "-", ":"))

\* QueryParser.get_wifi_components: the pair (bssid, ssid)
get_wifi_components(p) ==
    LET text == p.primary_target
        bar  == IndexOf(text, "|")
        pair ==
           IF p.query_type = "structured"
           THEN <<GetOr(p.fields, <<"bssid", "mac", "wifi">>),
                  GetOr(p.fields, <<"ssid">>)>>
           ELSE IF p.scan_type # "WIFI" THEN <<NoVal, NoVal>>
           ELSE IF bar > 0
           THEN <<str_strip(SubSeq(text, 1, bar - 1)),
                  str_strip(From(text, bar + 1))>>
           ELSE IF BssidPattern(text) THEN <<text, NoVal>>
           ELSE <<NoVal, text>>
    IN  IF pair[1] # NoVal /\ pair[1] # ""
        THEN <<normalize_bssid(pair[1]), pair[2]>>
        ELSE pair

\* What scan_query_async does with a query: it fails, or it calls scan_async
\* with a target and a scan type.
Handed(status, text, stype) ==
    [done |-> TRUE, status |-> status, target |-> text, scan_type |-> stype]

scan_query_async(q) ==
    LET p == parse(q)
    IN  IF ~p.is_valid THEN Handed("failed", q, "EMAIL")
        ELSE IF p.scan_type = NoVal THEN Handed("failed", q, "EMAIL")
        ELSE IF p.query_type = "structured"
        THEN Handed("scan_async", q, p.scan_type)
        ELSE Handed("scan_async", p.primary_target, p.scan_type)

\* At most this many field:value tokens in a structured query.
MaxFields == 2

\* field:value tokens: sound ones of several types, one with an unknown
\* field, and ones whose value fails the validator of the field.
Tokens ==
    {"email:\"a@b.com\"", "ip:\"1.1.1.1\"", "phone:'+15551234567'",
     "user:bob", "bogus:x", "email:nope", "name:\"John Doe\"",
     "IP:8.8.8.8", "mac:AA:BB:CC:DD:EE:FF", "hash:abc"}

TokenLists == UNION { [1..n -> Tokens] : n \in 1..MaxFields }

\* " ".join(tokens)
RECURSIVE Join(_)
Join(toks) ==
    IF Len(toks) = 1 THEN toks[1]
    ELSE toks[1] \o " " \o Join(Tail(toks))

StructuredQueries == { Join(t) : t \in TokenLists }

\* Bare targets of every kind, and strings that are none.
SimpleQueries ==
    {"", "   ", "a@b.com", " a@b.com ", "1.1.1.1", "01.1.1.1", "256.1.1.1",
     "0.0.0.0", "255.255.255.255", "192.168.1", "1.2.3.4.5", "1.1.1.256",
     "1.1.1.01", "1.1",
     "::1", "2001:db8::1", "AA:BB:CC:DD:EE:FF", "aa-bb-cc-dd-ee-ff",
     "00-11-22-33-44-55", "00:11:22:33:44:55", "AABBCCDDEEFF",
     "001122334455", "AA:BB:CC:DD:EE:FF|MyNet", "+15551234567",
     "555-123-4567", "(555) 123-4567",
     "5f4dcc3b5aa765d61d8327deb882cf99",
     "12345678901234567890123456789012",
     "5baa61e4c9b93f3f0682250b6cf8331b7ee68fd8",
     "$2b$12$abcdefghijklmnopqrstuvwxyzABCDEFGHIJKLMNOPQRSTUVWXYZ0",
     "$2b$short", "$argon2id$v=19", "example.com", "sub.example.co.uk",
     "1example.com", "@alice", "alice", "ab", "john_doe-99", "john.doe",
     "12345", "\"10 Main St\"", "123 Main Street, Springfield",
     "10 Main St", "main street town", "hello world", "mail:", "a:b",
     "x|y", "foo, bar 12345 city"}

Queries == SimpleQueries \cup StructuredQueries

ParserInit ==
    /\ query \in Queries
    /\ ParserNew
    /\ RegistryUnused
    /\ engine = "" /\ installed = {} /\ cred = <<>> /\ haxalot = <<>>
    /\ target = <<>> /\ pc = "" /\ runners = <<>> /\ task = <<>>
    /\ behaviour = <<>> /\ res = <<>> /\ ran = <<>> /\ mainEvents = <<>>
    /\ modEvents = <<>> /\ ret = NotReturned /\ EnvUnused

\* QueryParser().parse(query)
Parse ==
    /\ parsed' = parse(query)
    /\ UNCHANGED <<query, classified, wifi, handed, registryVars, scanVars>>

\* detect_input_type(query)
Classify ==
    /\ classified' = detect_input_type(query)
    /\ UNCHANGED <<query, parsed, wifi, handed, registryVars, scanVars>>

ParserNext ==
    \/ Parse
    \/ Classify

ParserSpec == ParserInit /\ [][ParserNext]_vars

\* --------------------------------------------- the environment of a scan
\* The lower limit of module_timeout (seconds).
MinModuleTimeout == 5

\* int(s) of a stripped string: an optional sign and decimal digits
IsDecimal(s) ==
    LET d == IF s # "" /\ Chr(s, 1) \in {"+", "-"} THEN From(s, 2) ELSE s
    IN  d # "" /\ AllIn(d, Digits)

int(s) ==
    IF Chr(s, 1) = "-" THEN 0 - ToInt(From(s, 2))
    ELSE IF Chr(s, 1) = "+" THEN ToInt(From(s, 2))
    ELSE ToInt(s)

Max(a, b) == IF a >= b THEN a ELSE b

\* module_timeout as the integer of the environment, with no lower limit.
init_module_timeout_unlimited(env) ==
    LET env_timeout_ == str_strip(IF env = NoVal THEN "25" ELSE env)
    IN  IF IsDecimal(env_timeout_) THEN int(env_timeout_)
        ELSE DefaultModuleTimeout

\* XsintEngine.__init__: module_timeout from XSINT_MODULE_TIMEOUT
init_module_timeout(env) ==
    LET env_timeout_ == str_strip(IF env = NoVal THEN "25" ELSE env)
    IN  IF IsDecimal(env_timeout_)
        THEN Max(MinModuleTimeout, int(env_timeout_))
        ELSE DefaultModuleTimeout

\* Values of XSINT_MODULE_TIMEOUT: not set, and set to these strings.
EnvTimeouts == {NoVal, "", "abc", "-1", "4", "24", " 60 "}

\* The module files with the given names.
Named(names) == { i \in ModIds : ModuleTable[i].name \in names }

\* Scans with any progress sink and any value of the environment variable,
\* of installations that hold none, one or both of two modules for e-mail
\* targets.
EnvInit ==
    /\ ScanStart(SUBSET Named({"email_basic", "hibp"}))
    /\ sink \in Sinks
    /\ env_timeout \in EnvTimeouts
    /\ module_timeout = init_module_timeout(env_timeout)
    /\ NetUnused

EnvSpec == EnvInit /\ [][Next]_vars

\* Scans in which the order is recorded in which the tasks end.
OrderInit ==
    /\ ScanStart(SUBSET Named({"email_basic", "hibp"}))
    /\ DefaultEnv

OrderNext ==
    \/ ScanAmbiguous
    \/ ScanNoModules
    \/ ScanLaunch
    \/ \E n \in ModNames : ModuleStart(n)
    \/ \E n \in ModNames : RunReturns(n) /\ finished' = Append(finished, n)
    \/ \E n \in ModNames : RunRaises(n) /\ finished' = Append(finished, n)
    \/ \E n \in ModNames : RunTimesOut(n) /\ finished' = Append(finished, n)
    \/ ScanAggregate

OrderSpec == OrderInit /\ [][OrderNext]_vars

\* ------------------------------------------------ HTTP connection pools
\* AsyncOSINTEngine: the default of max_concurrent_requests, the limit of
\* its TCPConnector, and the connector's limit_per_host.
MaxConcurrentRequests == 100
LimitPerHost == 20

\* At most this many modules are launched by a scan of XsintEngine.
MaxLaunched == 21

\* Two hosts that are told apart, and all the other hosts taken together;
\* none of the other hosts is at its own limit.
Hosts == {"haveibeenpwned.com", "9ghz.com", "<other hosts>"}
TrackedHosts == Hosts \ {"<other hosts>"}

RECURSIVE SumOver(_, _)
SumOver(f, S) ==
    IF S = {} THEN 0
    ELSE LET x == CHOOSE y \in S : TRUE IN f[x] + SumOver(f, S \ {x})

InFlight == SumOver(pool.inflight, Hosts)

\* TCPConnector(limit, limit_per_host): a request gets a connection when
\* fewer than limit are in use, and fewer than limit_per_host to its host
\* (limit_per_host 0: no limit per host).
Admits(inflight, h, limit, limit_per_host) ==
    /\ SumOver(inflight, Hosts) < limit
    /\ (limit_per_host # 0 /\ h \in TrackedHosts) =>
          inflight[h] < limit_per_host

PoolInit ==
    /\ pool \in { [engine |-> e, launched |-> n,
                    inflight |-> [h \in Hosts |-> 0]] :
                   e \in {"async", "xsint"}, n \in 1..MaxLaunched }
    /\ (pool.engine = "async") => pool.launched = 1
    /\ retry = NoRetry
    /\ AuxUnused
    /\ sink = "" /\ env_timeout = "" /\ module_timeout = 0
    /\ finished = <<>>
    /\ RegistryUnused /\ ParserUnused
    /\ engine = "" /\ installed = {} /\ cred = <<>> /\ haxalot = <<>>
    /\ target = <<>> /\ pc = "" /\ runners = <<>> /\ task = <<>>
    /\ behaviour = <<>> /\ res = <<>> /\ ran = <<>> /\ mainEvents = <<>>
    /\ modEvents = <<>> /\ ret = NotReturned

PoolUnchanged ==
    UNCHANGED <<retry, auxVars, sink, env_timeout, module_timeout, finished, engine,
                installed, cred, haxalot, target, pc, runners, task,
                behaviour, res, ran, mainEvents, modEvents, ret,
                registryVars, parserVars>>

\* A plugin of AsyncOSINTEngine sends a request through self.session, the
\* session of the engine that all plugins are given.
AsyncRequest(h) ==
    /\ pool.engine = "async"
    /\ Admits(pool.inflight, h, MaxConcurrentRequests, LimitPerHost)
    /\ pool' = [pool EXCEPT !.inflight[h] = @ + 1]
    /\ PoolUnchanged

\* A module of XsintEngine that has no request in flight sends one.  It
\* does not use the session the engine passes to run: it opens an
\* httpx.AsyncClient of its own, whose pool holds this one request.
XsintRequest(h) ==
    /\ pool.engine = "xsint"
    /\ InFlight < pool.launched
    /\ pool' = [pool EXCEPT !.inflight[h] = @ + 1]
    /\ PoolUnchanged

\* A response arrives, or the request fails.
RequestEnds(h) ==
    /\ pool.engine \in {"async", "xsint"}
    /\ pool.inflight[h] > 0
    /\ pool' = [pool EXCEPT !.inflight[h] = @ - 1]
    /\ PoolUnchanged

PoolNext ==
    \/ \E h \in Hosts : AsyncRequest(h)
    \/ \E h \in Hosts : XsintRequest(h)
    \/ \E h \in Hosts : RequestEnds(h)

PoolSpec == PoolInit /\ [][PoolNext]_vars

\* ------------------------------------- modules/hibp.py, modules/nineghz.py
\* The number of passes of the request loop, and the seconds hibp sleeps
\* after a 429 response that has no retry-after header.
MAX_RETRIES == 3
DefaultRetryAfter == 2

\* The retry-after headers of a 429 response: none, seconds, or a date.
RetryAfters == {NoVal, "1", "30", "Wed, 21 Oct 2026 07:28:00 GMT"}

Response(status, retry_after, body) ==
    [status |-> status, retry_after |-> retry_after, body |-> body]

\* What the server may answer; status 0 stands for a request that raises
\* httpx.RequestError.
Responses ==
    { Response(429, h, "") : h \in RetryAfters }
    \cup { Response(200, NoVal, b) : b \in {"json", "truncated"} }
    \cup { Response(s, NoVal, "") : s \in {0, 401, 404, 500} }

RunResult(status, text) == [status |-> status, value |-> text]
NotRun == RunResult(NoVal, "")

Retry(module, key) ==
    [module |-> module, key |-> key, pc |-> "start", responses |-> <<>>,
     slept |-> <<>>, result |-> NotRun]

RetryInit ==
    /\ retry \in { Retry(mo, k) : mo \in {"hibp", "nineghz"},
                                   k \in BOOLEAN }
    /\ pool = NoPool
    /\ AuxUnused
    /\ sink = "" /\ env_timeout = "" /\ module_timeout = 0
    /\ finished = <<>>
    /\ RegistryUnused /\ ParserUnused
    /\ engine = "" /\ installed = {} /\ cred = <<>> /\ haxalot = <<>>
    /\ target = <<>> /\ pc = "" /\ runners = <<>> /\ task = <<>>
    /\ behaviour = <<>> /\ res = <<>> /\ ran = <<>> /\ mainEvents = <<>>
    /\ modEvents = <<>> /\ ret = NotReturned

RetryUnchanged ==
    UNCHANGED <<pool, auxVars, sink, env_timeout, module_timeout, finished, engine,
                installed, cred, haxalot, target, pc, runners, task,
                behaviour, res, ran, mainEvents, modEvents, ret,
                registryVars, parserVars>>

\* The pass of the loop got response r, slept for the given seconds (0: no
\* sleep) and goes on with the next pass, if there is one; after the last
\* pass run returns what follows the loop.
Continue(r, seconds, exhausted) ==
    LET n == Len(retry.responses) + 1
    IN  [retry EXCEPT
           !.responses = Append(@, r),
           !.slept = Append(@, seconds),
           !.pc = IF n < MAX_RETRIES THEN "loop" ELSE "returned",
           !.result = IF n < MAX_RETRIES THEN @ ELSE exhausted]

\* The pass of the loop got response r and run returns.
Return(r, result) ==
    [retry EXCEPT !.responses = Append(@, r), !.slept = Append(@, 0),
                  !.pc = "returned", !.result = result]

\* run() up to its request loop: hibp returns at once without an API key.
RunStart ==
    /\ retry.pc = "start"
    /\ retry' = IF retry.module = "hibp" /\ ~retry.key
                THEN [retry EXCEPT !.pc = "returned",
                                   !.result = RunResult(1, "")]
                ELSE [retry EXCEPT !.pc = "loop"]
    /\ RetryUnchanged

\* One pass of the loop of hibp.run for the response r.
hibp_pass(r) ==
    LET exhausted == RunResult(1, "Rate limited after retries")
        header    == IF r.retry_after = NoVal THEN "" ELSE r.retry_after
    IN  CASE r.status = 0   -> Return(r, RunResult(1, "HIBP Error"))
          [] r.status = 429 ->
               IF r.retry_after = NoVal
               THEN Continue(r, DefaultRetryAfter, exhausted)
               ELSE IF IsDecimal(str_strip(header))
               THEN Continue(r, int(str_strip(header)), exhausted)
               ELSE Return(r, RunResult(1, "HIBP Error"))
          [] r.status = 404 -> Return(r, RunResult(0, NoneFound))
          [] r.status = 401 -> Return(r, RunResult(1, ""))
          [] r.status = 200 -> Return(r, RunResult(0, "Breaches"))
          [] OTHER          -> Continue(r, 0, exhausted)

\* One pass of the loop of nineghz.run for the response r.
nineghz_pass(r) ==
    LET attempt   == Len(retry.responses)
        exhausted == RunResult(1, "Max retries exceeded")
    IN  CASE r.status = 0 ->
               IF attempt < MAX_RETRIES - 1 THEN Continue(r, 1, exhausted)
               ELSE Return(r, RunResult(1, "Connection failed"))
          [] r.status = 429 -> Continue(r, 2 * (attempt + 1), exhausted)
          [] r.status = 200 ->
               IF r.body = "json" THEN Return(r, RunResult(0, "Breaches"))
               ELSE IF attempt < MAX_RETRIES - 1
               THEN Continue(r, 1, exhausted)
               ELSE Return(r, RunResult(1, "Response truncated"))
          [] r.status >= 500 -> Continue(r, 1, exhausted)
          [] OTHER -> Return(r, RunResult(1, "HTTP status"))

HibpPass ==
    /\ retry.module = "hibp"
    /\ retry.pc = "loop"
    /\ \E r \in Responses : retry' = hibp_pass(r)
    /\ RetryUnchanged

NineghzPass ==
    /\ retry.module = "nineghz"
    /\ retry.pc = "loop"
    /\ \E r \in Responses : retry' = nineghz_pass(r)
    /\ RetryUnchanged

RetryNext ==
    \/ RunStart
    \/ HibpPass
    \/ NineghzPass

RetrySpec == RetryInit /\ [][RetryNext]_vars

\* ------------------------------------------- WiFi accessor and hand-over
\* Queries of the three WiFi shapes and of the other kinds.
WifiTokens ==
    {"bssid:aa-bb-cc-dd-ee-ff", "ssid:MyNet", "mac:AA:BB:CC:DD:EE:FF",
     "wifi:00-11-22-33-44-55", "email:\"a@b.com\"", "bssid:zz"}

WifiTokenLists == UNION { [1..n -> WifiTokens] : n \in 1..MaxFields }

WifiQueries ==
    { Join(t) : t \in WifiTokenLists }
    \cup {"AA:BB:CC:DD:EE:FF", "aa-bb-cc-dd-ee-ff", "00-11-22-33-44-55",
          "00:11:22:33:44:55", "Aa:bB:0c:1D:e2:F3", "aa-bb-cc-dd-ee-ff|MyNet",
          "AA:BB:CC:DD:EE:FF|MyNet", "00-11-22-33-44-55|Net",
          " aa:bb:cc:dd:ee:ff | My Net ", "aa-bb:cc-dd:ee-ff", "x|y",
          "a@b.com", " a@b.com ", "1.1.1.1", "hello world", "alice", ""}

QueryInit ==
    /\ query \in WifiQueries
    /\ ParserNew
    /\ RegistryUnused
    /\ engine = "" /\ installed = {} /\ cred = <<>> /\ haxalot = <<>>
    /\ target = <<>> /\ pc = "" /\ runners = <<>> /\ task = <<>>
    /\ behaviour = <<>> /\ res = <<>> /\ ran = <<>> /\ mainEvents = <<>>
    /\ modEvents = <<>> /\ ret = NotReturned /\ EnvUnused

\* get_parser().get_wifi_components(parsed)
GetWifiComponents ==
    /\ parsed.done
    /\ wifi' = get_wifi_components(parsed)
    /\ UNCHANGED <<query, parsed, classified, handed, registryVars, scanVars>>

\* AsyncOSINTEngine.scan_query_async(query)
ScanQuery ==
    /\ handed' = scan_query_async(query)
    /\ UNCHANGED <<query, parsed, classified, wifi, registryVars, scanVars>>

QueryNext ==
    \/ Parse
    \/ GetWifiComponents
    \/ ScanQuery

QuerySpec == QueryInit /\ [][QueryNext]_vars

\* ------------------------------------------- capabilities and loading
\* KissEngine.get_capabilities: the status of a module under one of its
\* types.  There is no runtime gate, and a key counts as present unless
\* get_api_key gives None.
kiss_capability_status(mod, ty, c) ==
    LET has_key == IF mod.api_key # NoKey
                   THEN kiss_get_api_key(c, mod.api_key) # NoVal ELSE TRUE
    IN  IF ty \in mod.free THEN "active"
        ELSE IF has_key THEN "active"
        ELSE "locked"

RECURSIVE KissCapsFrom(_, _, _)
KissCapsFrom(mods, ty, c) ==
    IF mods = <<>> THEN <<>>
    ELSE (IF ty \in (Head(mods).free \cup Head(mods).paid) /\ ty \in VALID_TYPES
          THEN <<[name |-> Head(mods).name,
                  status |-> kiss_capability_status(Head(mods), ty, c)]>>
          ELSE <<>>) \o KissCapsFrom(Tail(mods), ty, c)

\* KissEngine.get_capabilities()[ty]
kiss_get_capabilities(inst, ty, c) == KissCapsFrom(scan_modules(inst), ty, c)

\* The states of one service's credential: the three of CredStates, nothing
\* stored at all, and an empty string in config.json or in the environment.
CapCredStates ==
    CredStates \cup { Unset,
                      [env |-> NoVal, cfg |-> ""],
                      [env |-> "",    cfg |-> "secret"] }

\* An engine with some module files and credentials, no call made yet.
CapsInit ==
    /\ engine \in {"xsint", "kiss"}
    /\ installed \in { S \in SUBSET ModIds :
                         Cardinality(S) \in 1..MaxModules }
    /\ cred \in { c \in [Services -> CapCredStates] :
                    \A sv \in Services :
                      sv \notin UsedServices(installed) => c[sv] = Unset }
    /\ haxalot \in { h \in HaxalotStates :
                       UsesHaxalot(installed) \/ ~h.enabled }
    /\ caps = NoCaps
    /\ ascan = NoAscan
    /\ pool = NoPool /\ retry = NoRetry
    /\ sink = "" /\ env_timeout = "" /\ module_timeout = 0
    /\ finished = <<>>
    /\ RegistryUnused /\ ParserUnused
    /\ target = <<>> /\ pc = "" /\ runners = <<>> /\ task = <<>>
    /\ behaviour = <<>> /\ res = <<>> /\ ran = <<>> /\ mainEvents = <<>>
    /\ modEvents = <<>> /\ ret = NotReturned

CapsUnchanged ==
    UNCHANGED <<ascan, pool, retry, sink, env_timeout, module_timeout, finished,
                engine, installed, cred, haxalot, target, pc, runners, task,
                behaviour, res, ran, mainEvents, modEvents, ret,
                registryVars, parserVars>>

\* get_capabilities() is called: the listing of every valid type.
GetCapabilities ==
    /\ ~caps.listed
    /\ caps' = [caps EXCEPT
         !.listed = TRUE,
         !.listing = [ty \in VALID_TYPES |->
                        IF engine = "xsint"
                        THEN get_capabilities(installed, ty, cred, haxalot)
                        ELSE kiss_get_capabilities(installed, ty, cred)]]
    /\ CapsUnchanged

\* _load_modules_for_type(ty) is called, as scan() does for a target of
\* type ty: the names of the modules whose runner it returns.
LoadModulesForType(ty) ==
    /\ caps.type = ""
    /\ caps' = [caps EXCEPT
         !.type = ty,
         !.runners = IF engine = "xsint"
                     THEN load_modules_for_type(installed, ty, cred,
                                                haxalot).runners
                     ELSE kiss_load_modules_for_type(installed, ty, cred)]
    /\ CapsUnchanged

CapsNext ==
    \/ GetCapabilities
    \/ \E ty \in VALID_TYPES : LoadModulesForType(ty)

CapsSpec == CapsInit /\ [][CapsNext]_vars
\* ------------------------------------------------- registry lookups
\* PluginRegistry.get(name): the class registered under the name, or None.
Get ==
    \E name \in {"hibp", "hudson_rock", "nope"} :
       /\ lastOp' = Call("get", "", name, <<>>,
                         IF DictHas(plugins, name)
                         THEN DictGet(plugins, name).cls ELSE "None",
                         TRUE)
       /\ UNCHANGED <<plugins, plugin_files, initialized, scanVars,
                      parserVars>>

\* PluginRegistry.get_all(): a copy of the map is handed out.
GetAll ==
    /\ lastOp' = Call("get_all", "", "", DictKeys(get_all(plugins)), "dict",
                      TRUE)
    /\ UNCHANGED <<plugins, plugin_files, initialized, scanVars, parserVars>>

LookupNext ==
    \/ RegistryNext
    \/ Get
    \/ GetAll

LookupSpec == RegistryInit /\ [][LookupNext]_vars
\* -------------------------------------------------- kiss/async_engine.py
\* The scans running on one AsyncOSINTEngine.
ScanIds == {"first", "second"}

\* supported_scan_types of the metadata of a plugin class.
supported_scan_types(c) ==
    CASE c.name = "hibp"        -> {"EMAIL", "DOMAIN"}
      [] c.name = "hudson_rock" -> {"EMAIL", "IP", "PHONE", "DOMAIN"}
      [] c.name = "ipinfo"      -> {"IP"}
      [] c.name = "shodan"      -> {"IP"}
      [] c.name = "whois"       -> {"DOMAIN"}
      [] OTHER                  -> {}

\* PluginRegistry.get_by_scan_type: the names of the registered classes that
\* support the type, in the order of the map.
get_by_scan_type(d, scan_type) ==
    DictKeys(SelectSeq(d, LAMBDA e :
                 str_upper(scan_type) \in supported_scan_types(e.val)))

\* The types scan_async routes to a scan_<type>_async method.
RoutedTypes ==
    {"IP", "EMAIL", "PHONE", "USERNAME", "ADDRESS", "HASH", "WIFI", "DOMAIN"}

Failed_(msg) == [routed |-> FALSE, error |-> msg, scan_type |-> "EMAIL"]
Routed(ty) == [routed |-> TRUE, error |-> "", scan_type |-> ty]

\* The routing of scan_async by the upper-cased scan type.
route_type(ty) ==
    IF str_upper(ty) \in RoutedTypes THEN Routed(str_upper(ty))
    ELSE Failed_("Unsupported scan type: " \o ty)

\* scan_async(target, scan_type) up to the call of scan_<type>_async: the
\* type is detected only when none is given.
scan_async(t, st) ==
    IF st # NoVal THEN route_type(st)
    ELSE IF detect_input_type(t) = NoVal
    THEN Failed_("Could not detect input type")
    ELSE route_type(detect_input_type(t))

\* "; ".join(errors)
RECURSIVE JoinErrors(_)
JoinErrors(errs) ==
    IF errs = <<>> THEN ""
    ELSE IF Len(errs) = 1 THEN errs[1]
    ELSE errs[1] \o "; " \o JoinErrors(Tail(errs))

\* scan_query_async(query) up to the call of scan_<type>_async: a valid
\* query with a type is handed to scan_async with that type.
query_route(q) ==
    LET p == parse(q)
    IN  IF ~p.is_valid THEN Failed_(JoinErrors(p.errors))
        ELSE IF p.scan_type = NoVal
        THEN Failed_("Could not determine query type")
        ELSE route_type(p.scan_type)

\* The calls of the scan entry points: scan_async with and without a type,
\* scan_query_async, and scan_<type>_async called directly.
AsyncCall(entry, t, st) == [entry |-> entry, target |-> t, scan_type |-> st]
AsyncCalls ==
    { AsyncCall("scan_async", t, NoVal) :
        t \in {"1.1.1.1", "a@b.com", "hello world", ""} }
    \cup { AsyncCall("scan_async", "a@b.com", st) :
             st \in {"email", "PASSWORD", ""} }
    \cup { AsyncCall("scan_query_async", q, NoVal) :
             q \in {"a@b.com", "email:\"a@b.com\"", "ip:\"1.1.1\"",
                    "name:\"John Doe\"", "hello world", ""} }
    \cup { AsyncCall("scan_type_async", "1.1.1.1", st) :
             st \in {"IP", "EMAIL", "WIFI"} }

Route(call) ==
    CASE call.entry = "scan_async" -> scan_async(call.target, call.scan_type)
      [] call.entry = "scan_query_async" -> query_route(call.target)
      [] OTHER -> Routed(call.scan_type)

\* What each of the calls is routed to: the routing depends on nothing but
\* the call, so it is worked out once and kept with the engine as a table.
Routes == [call \in AsyncCalls |-> Route(call)]

\* A scan: where it is, the call, the ScanResult it returned and what it did
\* with the plugins.
NoRead == [done |-> FALSE]
Idle ==
    [pc |-> "idle", call |-> AsyncCall("", "", NoVal), status |-> "PENDING",
     error |-> "", read |-> NoRead, launched |-> <<>>]

\* The plugin files of the installations a scan runs on.
AsyncFiles ==
    { f \in [builtin : BuiltinListings, custom : {<<>>},
             user : Listings(UserFilePool), user_exists : BOOLEAN] :
        /\ Len(f.builtin) = 2
        /\ \A i \in 1..2 : f.builtin[i].load = "ok"
        /\ Len(f.user) <= 1
        /\ \A i \in DOMAIN f.user : f.user[i].path = "bad_meta.py"
        /\ f.user # <<>> => f.user_exists }

AsyncInit ==
    /\ plugin_files \in AsyncFiles
    /\ RegistryNew
    /\ ascan = [flag |-> FALSE, registry |-> FALSE, routes |-> Routes,
                scans |-> [i \in ScanIds |-> Idle]]
    /\ caps = NoCaps /\ pool = NoPool /\ retry = NoRetry
    /\ sink = "" /\ env_timeout = "" /\ module_timeout = 0
    /\ finished = <<>>
    /\ ParserUnused
    /\ engine = "" /\ installed = {} /\ cred = <<>> /\ haxalot = <<>>
    /\ target = <<>> /\ pc = "" /\ runners = <<>> /\ task = <<>>
    /\ behaviour = <<>> /\ res = <<>> /\ ran = <<>> /\ mainEvents = <<>>
    /\ modEvents = <<>> /\ ret = NotReturned

AsyncUnchanged ==
    UNCHANGED <<caps, pool, retry, sink, env_timeout, module_timeout,
                finished, engine, installed, cred, haxalot, target, pc,
                runners, task, behaviour, res, ran, mainEvents, modEvents,
                ret, plugin_files, lastOp, parserVars>>

\* How the discovery of _init_plugins may end: it completes, it raises on
\* the way (here: when it turns to the user directory, after the built-in
\* plugins), or the import of the registry fails.
DiscoveryOutcomes == {"completes", "raises", "import_fails"}

\* AsyncOSINTEngine._init_plugins: what it leaves of the engine's flag and
\* registry reference and of the registry.
init_plugins(outcome) ==
    IF ascan.flag
    THEN [flag |-> TRUE, registry |-> ascan.registry, plugins |-> plugins,
          initialized |-> initialized]
    ELSE CASE outcome = "completes" ->
                [flag |-> TRUE, registry |-> TRUE,
                 plugins |-> IF initialized THEN plugins
                             ELSE discover_plugins(plugins, plugin_files,
                                                   <<>>),
                 initialized |-> TRUE]
           [] outcome = "raises" ->
                [flag |-> TRUE, registry |-> TRUE,
                 plugins |-> discover_builtin_plugins(plugins, plugin_files),
                 initialized |-> initialized]
           [] OTHER ->
                [flag |-> TRUE, registry |-> FALSE, plugins |-> plugins,
                 initialized |-> initialized]

Returned(call, status, err, rd, names) ==
    [pc |-> "returned", call |-> call, status |-> status, error |-> err,
     read |-> rd, launched |-> names]

\* An entry point is called and runs up to its first suspension: the routing
\* of scan_async and scan_query_async, then in scan_<type>_async the first
\* progress call, the plugin set-up and the reading of the registry.  With
\* plugins to run it waits in gather; without, it returns at once.
CallScan(i) ==
    /\ ascan.scans[i].pc = "idle"
    /\ \E call \in AsyncCalls, cb \in {"ok", "raises"},
          outcome \in DiscoveryOutcomes :
         LET r    == ascan.routes[call]
             ip   == init_plugins(outcome)
             rd   == [done |-> TRUE, complete |-> ip.initialized]
             names == get_by_scan_type(ip.plugins, r.scan_type)
         IN  IF ~r.routed
             THEN /\ ascan' = [ascan EXCEPT !.scans[i] =
                        Returned(call, "FAILED", r.error, NoRead, <<>>)]
                  /\ UNCHANGED <<plugins, initialized>>
             ELSE IF cb = "raises"
             THEN /\ ascan' = [ascan EXCEPT !.scans[i] =
                        Returned(call, "FAILED", "progress callback raised",
                                 NoRead, <<>>)]
                  /\ UNCHANGED <<plugins, initialized>>
             ELSE /\ plugins' = ip.plugins
                  /\ initialized' = ip.initialized
                  /\ ascan' = [ascan EXCEPT
                       !.flag = ip.flag,
                       !.registry = ip.registry,
                       !.scans[i] =
                          IF ~ip.registry
                          THEN Returned(call, "COMPLETED", "", NoRead, <<>>)
                          ELSE IF names = <<>>
                          THEN Returned(call, "COMPLETED", "", rd, <<>>)
                          ELSE [pc |-> "gather", call |-> call,
                                status |-> "RUNNING", error |-> "",
                                read |-> rd, launched |-> names]]
    /\ AsyncUnchanged

\* GatherReturns as a scan method that lets the exception of a bad row out.
GatherReturnsUncaught(i) ==
    /\ ascan.scans[i].pc = "gather"
    /\ \E rows \in {"rows", "plugin_raised", "bad_row", "not_a_list"} :
         ascan' = [ascan EXCEPT
           !.scans[i].pc = "returned",
           !.scans[i].status = IF rows \in {"rows", "plugin_raised"}
                               THEN "COMPLETED" ELSE "RUNNING"]
    /\ UNCHANGED <<plugins, initialized>>
    /\ AsyncUnchanged

\* The gather of _scan_with_plugins_async returns and scan_<type>_async goes
\* on to its end.  A plugin that raised counts for nothing; a row that
\* add_info does not take (an unknown threat level) or a plugin result that
\* is no list raises into the handler of scan_<type>_async.
GatherReturns(i) ==
    /\ ascan.scans[i].pc = "gather"
    /\ \E rows \in {"rows", "plugin_raised", "bad_row", "not_a_list"} :
         ascan' = [ascan EXCEPT
           !.scans[i].pc = "returned",
           !.scans[i].status = IF rows \in {"rows", "plugin_raised"}
                               THEN "COMPLETED" ELSE "FAILED",
           !.scans[i].error = IF rows \in {"rows", "plugin_raised"}
                              THEN "" ELSE rows]
    /\ UNCHANGED <<plugins, initialized>>
    /\ AsyncUnchanged

AsyncNext ==
    \/ \E i \in ScanIds : CallScan(i)
    \/ \E i \in ScanIds : GatherReturns(i)

AsyncSpec == AsyncInit /\ [][AsyncNext]_vars
\* ------------------------------------------- results of unexpected shape
\* Entries of a result list that are no findings: a bare string where a dict
\* is expected, and a dict with a risk level the engine does not know.
NotADict == [text |-> "raw line"]
UnknownRisk ==
    [label |-> "Score", value |-> "7", source |-> "DNS", risk |-> "unknown"]

IsDict(r) == "value" \in DOMAIN r

OddResults ==
    { [kind |-> "result", shape |-> "pair", data |-> d, msg |-> ""] :
        d \in { <<NotADict>>, <<MailServer, NotADict>>, <<UnknownRisk>> } }

\* The run function returns a (status, list) pair whose list holds an entry
\* of unexpected shape.
RunReturnsOdd(n) ==
    /\ engine = "xsint"
    /\ pc = "gather"
    /\ task[n] = "running"
    /\ behaviour[n] = "completes"
    /\ \E r \in OddResults : Finish(n, "ok", "", r)

\* final_data holds an entry that is no dict.
FilterRaises ==
    \E i \in DOMAIN Collect(runners, res) : ~IsDict(Collect(runners, res)[i])

\* scan() after the gather when the filter `r.get("value")` meets an entry
\* that has no get: the AttributeError leaves scan(), no scan_done is
\* emitted and nothing is returned.
ScanAggregateRaises ==
    /\ engine = "xsint"
    /\ pc = "gather"
    /\ GatherDone
    /\ FilterRaises
    /\ ret' = [returned |-> TRUE, type |-> "<raised>", results |-> <<>>,
               error |-> [text |-> "AttributeError: 'str' object has no attribute 'get'",
                          hints |-> <<>>]]
    /\ pc' = "returned"
    /\ UNCHANGED <<registryVars, parserVars, envVars, finished, engine,
                   installed, cred, haxalot, target, runners, task,
                   behaviour, res, ran, mainEvents, modEvents>>

ShapeInit ==
    /\ ScanStart(SUBSET Named({"email_basic", "hibp"}))
    /\ DefaultEnv

ShapeNext ==
    \/ ScanAmbiguous
    \/ ScanNoModules
    \/ ScanLaunch
    \/ \E n \in ModNames : ModuleStart(n)
    \/ \E n \in ModNames : RunReturns(n) /\ UNCHANGED finished
    \/ \E n \in ModNames : RunReturnsOdd(n) /\ UNCHANGED finished
    \/ \E n \in ModNames : RunRaises(n) /\ UNCHANGED finished
    \/ \E n \in ModNames : RunTimesOut(n) /\ UNCHANGED finished
    \/ ~FilterRaises /\ ScanAggregate
    \/ ScanAggregateRaises

ShapeSpec == ShapeInit /\ [][ShapeNext]_vars
\* ================================================================ claims
Launched == RangeOf(runners)

\* scan() returned after running modules.
Aggregated == ret.returned /\ runners # <<>>

\* The status of the module_done event of a finished module.
DoneStatus(n) == modEvents[n][Len(modEvents[n])].status

Failed(n)    == task[n] = "done" /\ res[n].kind = "exception"
Succeeded(n) == task[n] = "done" /\ DoneStatus(n) = "ok" /\ res[n].shape = "pair"
TimedOut(n)  == task[n] = "done" /\ DoneStatus(n) = "timeout"

Results == RangeOf(ret.results)

\* The findings a finished module is the origin of.
FindingsOf(n) ==
    IF res[n].kind = "exception" THEN {ErrorFinding(n, res[n])}
    ELSE IF res[n].shape = "pair" THEN RangeOf(res[n].data)
    ELSE {}

TimeoutFinding(n) == TimeoutResult(n).data[1]

\* How many entries of a sequence satisfy a test.
Count(seq, Test(_)) == Cardinality({ i \in DOMAIN seq : Test(seq[i]) })

IsTimeoutOf(n, r) == r.label = "Timeout" /\ r.source = n /\ r.risk = "medium"

ScanDoneEmitted ==
    \E i \in DOMAIN mainEvents : mainEvents[i].event = "scan_done"

\* C3: once scan_done has been emitted, every launched module has emitted
\* its module_done and is in a terminal state.
C3_ScanDoneAfterModules ==
    ScanDoneEmitted =>
      \A n \in Launched :
        /\ task[n] = "done"
        /\ Len(modEvents[n]) = 2
        /\ modEvents[n][2].event = "module_done"

\* scan_done after two modules that ended differently, one by its timeout.
C3_Witness ==
    /\ ScanDoneEmitted
    /\ Len(runners) = 2
    /\ TimedOut(runners[1])
    /\ Failed(runners[2])

\* The skipped list the progress sink received with modules_loaded.
ReportedSkipped ==
    IF Len(mainEvents) >= 3 /\ mainEvents[3].event = "modules_loaded"
    THEN mainEvents[3].skipped ELSE <<>>

\* The modules reported as skipped.
SkippedNames == { ReportedSkipped[i].name : i \in DOMAIN ReportedSkipped }

\* C4: a module invocation emits module_start once, then module_done once
\* with status ok, error or timeout, and nothing after it; its run function
\* is invoked once, when it starts; a skipped module never starts, runs or
\* reports.
C4_ModuleLifecycle ==
    /\ \A k \in SkippedNames :
         task[k] = "none" /\ ran[k] = 0 /\ modEvents[k] = <<>>
    /\ \A n \in ModNames :
      LET ev == modEvents[n]
      IN  /\ Len(ev) <= 2
          /\ Len(ev) >= 1 => ev[1].event = "module_start"
          /\ Len(ev) = 2 => /\ ev[2].event = "module_done"
                            /\ ev[2].status \in {"ok", "error", "timeout"}
          /\ ran[n] = (IF Len(ev) >= 1 THEN 1 ELSE 0)
          /\ task[n] \in {"none", "pending"} <=> Len(ev) = 0
          /\ task[n] = "running" <=> Len(ev) = 1
          /\ task[n] = "done" <=> Len(ev) = 2

\* A scan with one module that ran to the error state and one that was
\* skipped.
C4_Witness ==
    /\ ret.returned
    /\ \E n \in Launched : Failed(n) /\ ran[n] = 1
    /\ \E k \in SkippedNames : ran[k] = 0 /\ modEvents[k] = <<>>

\* The installed modules, and the type scan() detected.
InstalledMods == { ModuleTable[i] : i \in installed }
TargetType == Detected[1]
Classified == pc # "start" /\ TargetType # NoVal

\* The credential rule of the specification: the engine's credential store
\* gives a non-empty value for the API key the module declares, if it
\* declares one.
HasCredentials(m) ==
    \/ m.api_key = NoKey
    \/ engine = "xsint" /\ ~IsBlank(get_api_key(cred, m.api_key))
    \/ engine = "kiss" /\ kiss_get_api_key(cred, m.api_key) \notin {NoVal, ""}

FreeOrKeyed(m) ==
    \/ TargetType \in m.free
    \/ TargetType \in m.paid /\ HasCredentials(m)

\* The module's own readiness gate, by kind.
ReadyNow(m) ==
    CASE m.ready = "none" -> TRUE
      [] m.ready = "key"  -> ~IsBlank(get_api_key(cred, m.api_key))
      [] m.ready = "flag" -> haxalot.enabled /\ haxalot.session
      [] OTHER            -> FALSE

\* Eligible in fact: free or keyed, importable with a callable run, and, in
\* XsintEngine, ready.
Eligible(m) ==
    /\ FreeOrKeyed(m)
    /\ m.load = "ok"
    /\ engine = "xsint" => ReadyNow(m)

\* C5 as stated: a module is launched if and only if the type is free for
\* it, or paid for it with its credentials stored; nothing else decides.
C5_AsStated ==
    Classified =>
      \A m \in InstalledMods : m.name \in Launched <=> FreeOrKeyed(m)

\* C5 amended: a module is launched if and only if the type is free for it,
\* or paid for it with the API key it declares (if any) stored, and moreover
\* the module imports with a callable run and, in XsintEngine, its is_ready()
\* gate (if it has one) reports ready.
C5_Eligibility ==
    Classified =>
      \A m \in InstalledMods :
        (m.name \in Launched /\ task[m.name] # "none") <=> Eligible(m)

\* Two modules launched for an e-mail target: email_basic, for which the
\* type is free, and hibp, for which it is paid, its key being stored.
C5_Witness ==
    /\ engine = "xsint"
    /\ Classified
    /\ TargetType = "email"
    /\ Launched = {"hibp", "email_basic"}
    /\ get_api_key(cred, "hibp") = "secret"

\* C6: every module that supports the type but is not eligible is reported
\* to the progress sink as skipped, with a non-empty reason, and its run
\* function is never invoked.
C6_SkippedReported ==
    Classified =>
      \A m \in InstalledMods :
        TargetType \in (m.free \cup m.paid) /\ m.name \notin Launched =>
          /\ \E i \in DOMAIN ReportedSkipped :
               /\ ReportedSkipped[i].name = m.name
               /\ ReportedSkipped[i].reason # ""
          /\ ran[m.name] = 0

\* C7: no finding scan() returns has the value "None found".
C7_NoSentinelReturned ==
    ret.returned =>
      \A i \in DOMAIN ret.results : ret.results[i].value # NoneFound

\* A returned scan one of whose modules reported the sentinel next to a real
\* finding, and another raised an exception whose text is the sentinel.
C7_Witness ==
    /\ Aggregated
    /\ \E n \in Launched : res[n] = Raised(NoneFound)
    /\ \E n \in Launched :
         /\ res[n].shape = "pair"
         /\ NoBreaches \in RangeOf(res[n].data)
         /\ MailServer \in RangeOf(res[n].data)
    /\ ret.results # <<>>

\* How often x occurs in a sequence.
Copies(seq, x) == Cardinality({ i \in DOMAIN seq : seq[i] = x })

RECURSIVE CopiesReported(_, _)
CopiesReported(names, x) ==
    IF names = <<>> THEN 0
    ELSE Copies(Contribution(Head(names), res[Head(names)]), x)
         + CopiesReported(Tail(names), x)

\* C8: every finding whose value is not "None found" occurs in the results
\* exactly as often as the launched modules reported it (as the data of an
\* ok or timeout outcome, or as the Error finding of a raised exception):
\* nothing but the sentinel is dropped, and equal findings of different
\* modules are all kept.
C8_AllFindingsKept ==
    Aggregated =>
      \A x \in Results \cup UNION { FindingsOf(n) : n \in Launched } :
        x.value # NoneFound =>
          Copies(ret.results, x) = CopiesReported(runners, x)

\* Two modules reported the identical finding, and the results hold it
\* twice.
C8_Witness ==
    /\ Aggregated
    /\ Len(runners) = 2
    /\ res[runners[1]].data = <<MailServer>>
    /\ res[runners[2]].data = <<NoBreaches, MailServer>>
    /\ Succeeded(runners[1]) /\ Succeeded(runners[2])
    /\ ret.results = <<MailServer, MailServer>>

\* No installed module is eligible for the detected type.
NoneEligible == \A m \in InstalledMods : ~Eligible(m)

KnownPrefixes ==
    {"addr", "address", "loc", "user", "username", "u", "phone", "tel", "ip",
     "host", "email", "mail", "name", "n", "id", "ic", "ssn", "passport",
     "pp", "hash", "h"}

\* C10: when the target cannot be classified, scan() returns without loading
\* or starting a module, with an empty result list and an error message that
\* lists one explicit prefix for each supported target type.
C10_AmbiguousAborts ==
    pc # "start" /\ TargetType = NoVal =>
      /\ ret.returned
      /\ ret.results = <<>>
      /\ ret.error.text # NoVal
      /\ \A i \in DOMAIN mainEvents :
           mainEvents[i].event \in {"detect_start", "detect_done", "scan_done"}
      /\ \A n \in ModNames :
           task[n] = "none" /\ ran[n] = 0 /\ modEvents[n] = <<>>
      /\ LET hints == ret.error.hints
         IN  /\ \A i \in DOMAIN hints : hints[i] \in KnownPrefixes
             /\ { PrefixType(hints[i]) : i \in DOMAIN hints } = VALID_TYPES
             /\ Len(hints) = Cardinality(VALID_TYPES)
             /\ { PrefixType(q) : q \in KnownPrefixes } = VALID_TYPES

\* An unclassifiable target with an unknown prefix, given while modules are
\* installed.
C10_Witness ==
    /\ ret.returned
    /\ TargetType = NoVal
    /\ target.colon
    /\ Cardinality(installed) = MaxModules
    /\ ret.type = "AMBIGUOUS"

\* ------------------------------------------------ registry claim helpers
\* The files a discovery with these custom paths visits and loads.
RECURSIVE FilesOfPaths(_)
FilesOfPaths(paths) ==
    IF paths = <<>> THEN <<>>
    ELSE (IF Head(paths).exists THEN Head(paths).files ELSE <<>>)
         \o FilesOfPaths(Tail(paths))

VisitedFiles(fs, paths) ==
    RangeOf(fs.builtin) \cup RangeOf(FilesOfPaths(paths))
    \cup (IF fs.user_exists THEN RangeOf(fs.user) ELSE {})

\* The classes discovery can register from a set of files.
Registrable(files) ==
    { c \in UNION { RangeOf(f.classes) : f \in { g \in files : g.load = "ok" } } :
        c.metadata = "ok" }

DiscoveryRan == lastOp.op = "discover_plugins" /\ lastOp.ran

\* C11: once a discover_plugins call has completed (the registry is
\* initialized), a further discover_plugins call, whatever custom paths it is
\* given, leaves the name-to-plugin map as it was and the registry
\* initialized.
C11_DiscoveryIdempotent ==
    [][(initialized /\ lastOp'.op = "discover_plugins")
         => plugins' = plugins /\ initialized']_vars

\* A second call named the custom directory holding shodan.py, and shodan is
\* still not registered.
C11_Witness ==
    /\ initialized
    /\ lastOp.op = "discover_plugins" /\ ~lastOp.ran
    /\ Len(lastOp.paths) = 2
    /\ \E i \in DOMAIN plugin_files.custom :
          plugin_files.custom[i].path = "shodan.py"
    /\ plugins # <<>>
    /\ ~DictHas(plugins, "shodan")

\* C12: get_all() never holds two entries with one name, every entry is
\* filed under the name of its class, and after a successful register(cls)
\* the entry of that name is cls (last registered wins).
C12_OnePerName ==
    /\ \A i, j \in DOMAIN get_all(plugins) :
          i # j => get_all(plugins)[i].key # get_all(plugins)[j].key
    /\ \A i \in DOMAIN plugins : plugins[i].key = plugins[i].val.name
    /\ (lastOp.op = "register" /\ lastOp.ret = "True")
          => \E i \in DOMAIN plugins : plugins[i].val.cls = lastOp.cls

\* Discovery registered the built-in HIBPPlugin first of all, and register()
\* replaced it in place by CorpHIBP.
C12_Witness ==
    /\ initialized
    /\ plugin_files.custom = <<>> /\ ~plugin_files.user_exists
    /\ Len(plugin_files.builtin) = 2
    /\ plugin_files.builtin[1].path = "breach_detection/hibp.py"
    /\ lastOp.op = "register" /\ lastOp.ret = "True"
    /\ Len(plugins) = 2
    /\ plugins[1].key = "hibp" /\ plugins[1].val = CorpHIBP

\* C13: after a discovery, a name that both a loaded built-in file and a
\* loaded user-directory file define a plugin for is held by the class the
\* user file defines.
C13_UserOverridesBuiltin ==
    DiscoveryRan =>
       \A b \in Registrable(RangeOf(plugin_files.builtin)) :
          \A u \in Registrable(RangeOf(UserDir(plugin_files).files)) :
             (b.origin = "builtin" /\ u.origin = "user" /\ u.name = b.name)
                => DictGet(plugins, b.name).origin = "user"

\* C14: after a discovery, the registry is initialized, every class with
\* sound metadata in a visited file that loads has its name registered, no
\* class whose get_metadata raises and no class of a file that raises on
\* load is in the map; and a register() that returned False left the map as
\* it was.
C14_State ==
    /\ DiscoveryRan =>
          /\ initialized
          /\ \A c \in Registrable(VisitedFiles(plugin_files, lastOp.paths)) :
                DictHas(plugins, c.name)
          /\ \A i \in DOMAIN plugins :
                /\ plugins[i].val.metadata = "ok"
                /\ plugins[i].val \in
                      Registrable(VisitedFiles(plugin_files, lastOp.paths))
                      \cup DirectClasses
    /\ (lastOp.op = "register" /\ lastOp.cls = BadMeta.cls)
          => lastOp.ret = "False"

C14_BadPluginSkipped ==
    /\ []C14_State
    /\ [][(lastOp'.op = "register" /\ lastOp'.ret = "False")
             => plugins' = plugins]_vars

\* The user directory lists broken.py, which raises on load, before
\* bad_meta.py, whose BadMeta raises in get_metadata: whois is registered,
\* broken is not.
C14_Witness ==
    /\ DiscoveryRan
    /\ plugin_files.user_exists
    /\ Len(plugin_files.user) = 2
    /\ plugin_files.user[1].path = "broken.py"
    /\ plugin_files.user[2].path = "bad_meta.py"
    /\ plugin_files.builtin # <<>>
    /\ DictHas(plugins, "whois")
    /\ ~DictHas(plugins, "broken")

\* The modules get_capabilities lists for the type of the target.
Listed == RangeOf(get_capabilities(installed, TargetType, cred, haxalot))
Overlapping(m) == TargetType \in (m.free \cap m.paid)

Parsed == parsed.done
WasClassified == classified # NotClassified

\* The field:value tokens of the query and the types of those whose field
\* name is in the alias table.
TokensOf(q) == FindFields(str_strip(q), 1)
RecognizedTypes(q) ==
    { FIELD_SCAN_TYPES[str_lower(TokensOf(q)[i].field)] :
        i \in { j \in DOMAIN TokensOf(q) :
                  str_lower(TokensOf(q)[j].field) \in DOMAIN FIELD_SCAN_TYPES } }

\* A bare BSSID: six hex octet pairs separated by colons or by dashes.
BareBssid(q) ==
    \/ SeparatedOctets(str_strip(q), {":"})
    \/ SeparatedOctets(str_strip(q), {"-"})

LooksLikeBssid(q) ==
    \/ BareBssid(q)
    \/ Contains(q, "|") /\ BareBssid(Split(q, "|")[1])

\* Structured input as the grammar defines it: not a bare BSSID or
\* BSSID|SSID, and at least one token with a field name of the alias table.
StructuredInput(q) == ~LooksLikeBssid(q) /\ RecognizedTypes(q) # {}

PriorityOrder ==
    <<"EMAIL", "IP", "PHONE", "WIFI", "USERNAME", "ADDRESS", "HASH",
      "DOMAIN", "NAME">>

\* C16: the resolved type of a structured query is the first entry of
\* EMAIL > IP > PHONE > WIFI > USERNAME > ADDRESS > HASH > DOMAIN > NAME
\* among the types of its recognized fields, in whatever order the fields
\* are written.
C16_PriorityResolution ==
    (Parsed /\ StructuredInput(query)) =>
       parsed.scan_type = FirstIn(PriorityOrder, RecognizedTypes(query))

\* C17: a bare BSSID is parsed as a simple query of type WIFI.
C17_BareBssidIsWifi ==
    (Parsed /\ BareBssid(query)) =>
       parsed.query_type = "simple" /\ parsed.scan_type = "WIFI"

\* C18: for an input that is not structured, the type parse resolves is the
\* type the classifier returns for the same string, and the parsed query is
\* invalid exactly when the classifier returns None.
C18_SimpleDelegates ==
    (Parsed /\ WasClassified /\ parsed.query_type = "simple"
       /\ ~StructuredInput(query)) =>
       /\ parsed.scan_type = classified
       /\ ~parsed.is_valid <=> classified = NoVal

\* C19: a ParsedQuery returned by parse is valid if and only if its errors
\* are empty and its scan type is set.
C19_ValidIffNoErrors ==
    Parsed =>
       (parsed.is_valid <=> (parsed.errors = <<>> /\ parsed.scan_type # NoVal))

\* A simple query of no type, invalid with its one error.
C19_Witness ==
    /\ Parsed
    /\ query = "hello world"
    /\ parsed.query_type = "simple"
    /\ parsed.scan_type = NoVal
    /\ Len(parsed.errors) = 1
    /\ ~parsed.is_valid

\* The detection rules of the classifier, by type, and their order.
ClassifierOrder ==
    <<"IP", "WIFI", "HASH", "EMAIL", "PHONE", "DOMAIN", "USERNAME", "ADDRESS">>

RuleMatches(ty, v) ==
    CASE ty = "IP"       -> is_ip_address(v)
      [] ty = "WIFI"     -> is_bssid(v)
      [] ty = "HASH"     -> detect_hash_type(v) # NoVal
      [] ty = "EMAIL"    -> is_email(v)
      [] ty = "PHONE"    -> is_phone_number(v)
      [] ty = "DOMAIN"   -> is_domain(v)
      [] ty = "USERNAME" -> is_username(v)
      [] ty = "ADDRESS"  -> is_address(v)

Matching(q) ==
    { ty \in RangeOf(ClassifierOrder) : RuleMatches(ty, str_strip(q)) }

Groups(q) == Split(str_strip(q), ".")
Dotted(q) ==
    /\ Len(Groups(q)) >= 2
    /\ \A i \in DOMAIN Groups(q) :
          Groups(q)[i] # "" /\ AllIn(Groups(q)[i], Digits)

OctetTooLarge(q) == \E i \in DOMAIN Groups(q) : ToInt(Groups(q)[i]) > 255
LeadingZero(q) ==
    \E i \in DOMAIN Groups(q) :
        Len(Groups(q)[i]) > 1 /\ Chr(Groups(q)[i], 1) = "0"

\* A dotted quad as the claim words it: four octets, each in 0..255.
DottedQuad(q) == Dotted(q) /\ Len(Groups(q)) = 4 /\ ~OctetTooLarge(q)

\* C21 as stated: every dotted quad of four octets in 0..255 is classified
\* IP, and no dotted string with an octet above 255 or with fewer than four
\* octets is.
C21_AsStated ==
    WasClassified =>
       /\ DottedQuad(query) => classified = "IP"
       /\ (Dotted(query) /\ (OctetTooLarge(query) \/ Len(Groups(query)) < 4))
             => classified # "IP"

\* C21 amended: a dotted quad of four octets in 0..255 is classified IP
\* exactly when no octet is written with a leading zero, and no dotted
\* string with an octet above 255 or with a number of octets other than four
\* is classified IP.
C21_CanonicalQuadIsIP ==
    WasClassified =>
       /\ DottedQuad(query) => (classified = "IP" <=> ~LeadingZero(query))
       /\ (Dotted(query) /\ (OctetTooLarge(query) \/ Len(Groups(query)) # 4))
             => classified # "IP"

\* The largest dotted quad is classified IP.
C21_Witness ==
    /\ WasClassified
    /\ query = "255.255.255.255"
    /\ DottedQuad(query)
    /\ classified = "IP"

\* ------------------------------------------- structured-query claims
\* C26: an input is parsed as structured if and only if it does not look
\* like a bare BSSID or BSSID|SSID and holds at least one field:value token
\* whose field name is in the alias table, wherever that token occurs.
C26_StructuredIffRecognizedToken ==
    Parsed => (parsed.query_type = "structured" <=> StructuredInput(query))

\* The tokens of a query with a field name of the alias table, and those
\* among them whose value fails the validator of the field.
RecognizedTokens(q) ==
    { i \in DOMAIN TokensOf(q) :
        str_lower(TokensOf(q)[i].field) \in DOMAIN FIELD_SCAN_TYPES }
FailingTokens(q) ==
    { i \in RecognizedTokens(q) :
        ~FieldValid(get_canonical_field(str_lower(TokensOf(q)[i].field)),
                    TokensOf(q)[i].value) }
InvalidFormat(tok) ==
    "Invalid format for " \o str_lower(tok.field) \o ": " \o tok.value
ValidationErrors(p) ==
    { i \in DOMAIN p.errors : StartsWith(p.errors[i], "Invalid format for ") }

\* C27: in a structured query every field whose value fails its validator
\* adds exactly one validation error and the parse goes on: every recognised
\* field is stored, the type and the primary target are derived, and the
\* query is invalid.
C27_ErrorPerFailingField ==
    (Parsed /\ StructuredInput(query) /\ FailingTokens(query) # {}) =>
       /\ Cardinality(ValidationErrors(parsed))
             = Cardinality(FailingTokens(query))
       /\ \A i \in FailingTokens(query) :
             InvalidFormat(TokensOf(query)[i]) \in RangeOf(parsed.errors)
       /\ \A i \in RecognizedTokens(query) :
             DictHas(parsed.fields, str_lower(TokensOf(query)[i].field))
       /\ parsed.scan_type = FirstIn(PriorityOrder, RecognizedTypes(query))
       /\ parsed.primary_target
             = get_primary_target(parsed.scan_type, parsed.fields)
       /\ ~parsed.is_valid

\* ------------------------------------------------- WiFi accessor (C23)
Accessed == wifi # NotAccessed

\* Uppercase, colon-separated form: six pairs of uppercase hex digits
\* separated by colons.
CanonicalBssid(b) ==
    /\ SeparatedOctets(b, {":"})
    /\ str_upper(b) = b

\* The value of the first token of a query with one of the given field
\* names, or None.
FieldValue(q, names) ==
    LET hits == { i \in DOMAIN TokensOf(q) :
                    str_lower(TokensOf(q)[i].field) \in names }
    IN  IF hits = {} THEN NoVal
        ELSE TokensOf(q)[CHOOSE i \in hits : \A j \in hits : i <= j].value

\* C23: for a valid query of each of the three shapes the accessor returns
\* the pair (bssid, ssid) of the input with the BSSID in uppercase,
\* colon-separated form, and normalising a returned BSSID again leaves it
\* unchanged.
C23_WifiComponents ==
    (Accessed /\ parsed.is_valid) =>
       /\ BareBssid(query) =>
             wifi = <<normalize_bssid(str_strip(query)), NoVal>>
       /\ (~BareBssid(query) /\ LooksLikeBssid(query)) =>
             /\ wifi[1] = normalize_bssid(str_strip(Split(query, "|")[1]))
             /\ wifi[2] = str_strip(From(query, IndexOf(query, "|") + 1))
       /\ (parsed.query_type = "structured"
             /\ FieldValue(query, {"bssid"}) # NoVal) =>
             /\ wifi[1] = normalize_bssid(FieldValue(query, {"bssid"}))
             /\ wifi[2] = FieldValue(query, {"ssid"})
       /\ wifi[1] # NoVal =>
             /\ CanonicalBssid(wifi[1])
             /\ normalize_bssid(wifi[1]) = wifi[1]

\* ------------------------------------------------------ hand-over (C28)
WasHanded == handed.done

\* C28: for every valid parsed query, simple or structured, the target the
\* engine hands to module execution is the primary target of the query.
C28_HandsPrimaryTarget ==
    (WasHanded /\ parse(query).is_valid) =>
       /\ handed.status = "scan_async"
       /\ handed.target = parse(query).primary_target

\* ------------------------------------------------- progress sink (C24)
\* What scan returns for a target, an installation, the credentials and the
\* results of the modules, read off without regard to the progress sink.
ResultOfInputs ==
    IF Detected[1] = NoVal
    THEN [returned |-> TRUE, type |-> "AMBIGUOUS", results |-> <<>>,
          error |-> [text |-> "Could not determine target type.",
                     hints |-> AmbiguousHints]]
    ELSE IF Loaded.runners = <<>>
    THEN [returned |-> TRUE, type |-> Detected[1],
          results |-> <<NoModulesFinding>>, error |-> NoError]
    ELSE [returned |-> TRUE, type |-> Detected[1],
          results |-> final_data(Loaded.runners, res), error |-> NoError]

\* C24: progress events are advisory: what scan returns (type, findings,
\* error) is determined by the target, the credentials and what the modules
\* did, whether the progress sink is absent, is present, or raises an
\* exception on every event.
C24_ProgressAdvisory ==
    ret.returned =>
       /\ ret = ResultOfInputs
       /\ \A n \in RangeOf(runners) : task[n] = "done" /\ ran[n] = 1

\* A scan with a sink that raises on every event was handed its events and
\* returned the findings of its modules.
C24_Witness ==
    /\ sink = "raises"
    /\ ret.returned
    /\ Len(runners) = 2
    /\ Len(ret.results) > 0
    /\ Len(mainEvents) > 0

\* ------------------------------------------------- module time budget (C30)
\* The timeout of the wait_for that wraps the run function of a module, and
\* the timeout the module declares itself: no INFO dict has such an entry.
Budget(n) == module_timeout
DeclaredTimeout(n) == NoVal

\* The result of the module is the synthetic Timeout finding.
GotTimeout(n) ==
    /\ task[n] = "done"
    /\ res[n].kind = "result" /\ res[n].shape = "pair"
    /\ Len(res[n].data) = 1
    /\ res[n].data[1].label = "Timeout"

\* The budget a timed-out module reports in its finding.
ReportedBudget(n) ==
    res[n].data[1].value
       = "Module timed out after " \o ToString(Budget(n)) \o "s"

\* C30 as stated: the budget of a module is the timeout the module declares,
\* and 25 seconds when it declares none.
C30_AsStated ==
    \A n \in Launched :
       Budget(n) = IF DeclaredTimeout(n) # NoVal THEN DeclaredTimeout(n)
                   ELSE DefaultModuleTimeout

\* C30 amended: one budget holds for every module of the engine.  It is 25
\* seconds when XSINT_MODULE_TIMEOUT is not set or is not an integer, and
\* else the integer, but at least 5 seconds; a module that times out reports
\* this budget.
C30_EngineWideBudget ==
    LET e == str_strip(IF env_timeout = NoVal THEN "" ELSE env_timeout)
    IN  /\ module_timeout >= MinModuleTimeout
        /\ ~IsDecimal(e) => module_timeout = DefaultModuleTimeout
        /\ (IsDecimal(e) /\ int(e) >= MinModuleTimeout) =>
              module_timeout = int(e)
        /\ (IsDecimal(e) /\ int(e) < MinModuleTimeout) =>
              module_timeout = MinModuleTimeout
        /\ \A n \in Launched :
              /\ Budget(n) = module_timeout
              /\ GotTimeout(n) => ReportedBudget(n)

\* With XSINT_MODULE_TIMEOUT=4 a module timed out after 5 seconds.
C30_Witness ==
    /\ env_timeout = "4"
    /\ module_timeout = MinModuleTimeout
    /\ ret.returned
    /\ \E n \in Launched : GotTimeout(n) /\ ReportedBudget(n)

\* ---------------------------------------------- order of the findings (C25)
\* The position of a module among the module files _scan_modules lists.
PositionIn(seq, n) == CHOOSE i \in DOMAIN seq : seq[i].name = n

\* C25 as stated: the findings are in the order in which the modules
\* reached their terminal state, the findings of a module that ended
\* earlier before those of one that ended later.
C25_AsStated ==
    Aggregated => ret.results = final_data(finished, res)

\* C25 amended: the findings are in launch order, the order of the module
\* file names, whatever the order in which the modules ended.
C25_LaunchOrder ==
    Aggregated =>
       /\ ret.results = final_data(runners, res)
       /\ \A i, j \in DOMAIN runners :
             i < j => PositionIn(scan_modules(installed), runners[i])
                        < PositionIn(scan_modules(installed), runners[j])
       /\ RangeOf(finished) = RangeOf(runners)
       /\ Len(finished) = Len(runners)

\* The second module of the launch order ended first, and its findings
\* come last.
C25_Witness ==
    /\ Aggregated
    /\ Len(runners) = 2
    /\ finished = <<runners[2], runners[1]>>
    /\ res[runners[1]].shape = "pair" /\ res[runners[1]].data = <<MailServer>>
    /\ res[runners[2]].kind = "exception"
    /\ ret.results = <<MailServer, ErrorFinding(runners[2], res[runners[2]])>>

\* ------------------------------------------------- connection pool (C22)
\* C22: at every moment the requests in flight are at most the global
\* ceiling, those to any one host are at most the per-host ceiling, however
\* many modules are launched, and all of them are held by the one pool of
\* the engine.
C22_CeilingsHold ==
    /\ InFlight <= MaxConcurrentRequests
    /\ \A h \in TrackedHosts : pool.inflight[h] <= LimitPerHost
    /\ InFlight > 0 => pool.engine = "async"

\* ------------------------------------------------------ rate limits (C29)
RateLimited(i) == retry.responses[i].status = 429
RunReturned == retry.pc = "returned"

\* The delay the server asks for in a 429 response, in seconds.
ServerDelay(r) == int(str_strip(r.retry_after))
HasServerDelay(r) ==
    r.retry_after # NoVal /\ IsDecimal(str_strip(r.retry_after))

\* C29: after a 429 response a module sleeps for the delay the server gave,
\* or for a fixed default when it gave none, and tries again; it makes at
\* most 3 attempts, and when every attempt was rate-limited it returns an
\* error outcome.
C29_BackoffAndBound ==
    retry.pc \in {"loop", "returned"} =>
       /\ Len(retry.responses) <= MAX_RETRIES
       /\ \A i \in DOMAIN retry.responses :
             /\ (RateLimited(i) /\ HasServerDelay(retry.responses[i])) =>
                   retry.slept[i] = ServerDelay(retry.responses[i])
             /\ (RateLimited(i) /\ retry.responses[i].retry_after = NoVal) =>
                   retry.slept[i] = DefaultRetryAfter
       /\ (RunReturned /\ retry.responses # <<>>
             /\ \A i \in DOMAIN retry.responses : RateLimited(i)) =>
             retry.result.status = 1

ModuleEvents(kind) ==
    { <<n, i>> \in ModNames \X (1..2) :
        i <= Len(modEvents[n]) /\ modEvents[n][i].event = kind }

\* The main events of one kind.
MainEventsOf(kind) ==
    SelectSeq(mainEvents, LAMBDA e : e.event = kind)

\* C37: when a scan that launched modules has returned, the count of the
\* modules_loaded event, the number of module_start events, the number of
\* module_done events and the modules field of scan_done are one number, and
\* the findings field of scan_done is the length of the returned results.
C37_ProgressCounts ==
    Aggregated =>
      LET loaded == MainEventsOf("modules_loaded")
          done   == MainEventsOf("scan_done")
      IN  /\ Len(loaded) = 1
          /\ Len(done) = 1
          /\ loaded[1].count = Cardinality(ModuleEvents("module_start"))
          /\ loaded[1].count = Cardinality(ModuleEvents("module_done"))
          /\ loaded[1].count = done[1].modules
          /\ done[1].findings = Len(ret.results)

\* A scan that launched two modules, one of which timed out while the other
\* reported only the sentinel, which is filtered: two modules counted, one
\* finding counted.
C37_Witness ==
    /\ Aggregated
    /\ Len(runners) = 2
    /\ \E n \in Launched : TimedOut(n)
    /\ \E n \in Launched : Succeeded(n) /\ res[n].data = <<NoBreaches>>
    /\ MainEventsOf("scan_done")[1].modules = 2
    /\ MainEventsOf("scan_done")[1].findings = 1
    /\ Len(ret.results) = 1

\* ------------------------------------------------------------------ C38
\* The kinds of the main events, in the order of their emission.
MainKinds == [i \in DOMAIN mainEvents |-> mainEvents[i].event]

\* C38: a scan() call that has returned has emitted exactly one scan_done, as
\* its last event: of status aborted when the target could not be
\* classified, of status completed when no module was eligible and after a
\* run of modules.  The stage events come in the order detect_start,
\* detect_done, modules_loaded, and no module emits module_start before
\* modules_loaded has been emitted.
C38_StageOrder ==
    /\ [](/\ MainKinds \in
               { <<>>,
                 <<"detect_start", "detect_done", "scan_done">>,
                 <<"detect_start", "detect_done", "modules_loaded">>,
                 <<"detect_start", "detect_done", "modules_loaded",
                   "scan_done">> }
          /\ ret.returned =>
               /\ Len(MainEventsOf("scan_done")) = 1
               /\ mainEvents[Len(mainEvents)].event = "scan_done"
               /\ mainEvents[Len(mainEvents)].status =
                    (IF TargetType = NoVal THEN "aborted" ELSE "completed")
               /\ TargetType = NoVal <=> Len(mainEvents) = 3)
    /\ [][\A n \in ModNames :
            modEvents'[n] # modEvents[n] =>
              /\ MainEventsOf("modules_loaded") # <<>>
              /\ MainEventsOf("scan_done") = <<>>]_vars

\* A scan that ran a module and returned: four stage events, scan_done of
\* status completed last, the module's start after modules_loaded.
C38_Witness ==
    /\ Aggregated
    /\ MainKinds = <<"detect_start", "detect_done", "modules_loaded",
                     "scan_done">>
    /\ mainEvents[4].status = "completed"
    /\ \E n \in Launched : modEvents[n][1].event = "module_start"

\* ------------------------------------------------------------------ C36
\* The status the listing gives module name under the type loaded.
ListedStatus(name) ==
    LET l == caps.listing[caps.type]
    IN  l[CHOOSE i \in DOMAIN l : l[i].name = name].status

\* C36: the listing and the loading agree: a module that supports the type
\* is listed as active exactly when _load_modules_for_type returns its
\* runner for that type, and as locked exactly when it does not.
C36_ListingAgreesWithLoad ==
    caps.listed /\ caps.type # "" =>
      \A i \in installed :
        LET m == ModuleTable[i]
        IN  caps.type \in m.free \cup m.paid =>
              /\ ListedStatus(m.name) \in {"active", "locked"}
              /\ ListedStatus(m.name) = "active"
                   <=> m.name \in RangeOf(caps.runners)

\* ------------------------------------------------------------------ C34
\* The BSSID segment of an input: the part before "|" when there is one.
BssidSegment(q) ==
    LET s == str_strip(q)
    IN  IF Contains(s, "|") THEN str_strip(Split(s, "|")[1]) ELSE s

\* C34: the classifier returns WIFI only for an input whose BSSID segment is
\* six hex octet pairs separated by colons or dashes; twelve hex digits
\* without separators are not classified WIFI.
C34_WifiOnlySeparated ==
    WasClassified /\ classified = "WIFI" =>
      BssidPattern(BssidSegment(query))

C32_ReadsAfterDiscovery ==
    \A i \in ScanIds :
      ascan.scans[i].read.done => ascan.scans[i].read.complete

\* ------------------------------------------------------------------ C39
\* The calls that name no type a scan method exists for: the type is neither
\* given nor detected, or it is not one of the routed types, or the query
\* does not parse as valid.
Unroutable(call) ==
    CASE call.entry = "scan_async" ->
           LET ty == IF call.scan_type = NoVal
                     THEN detect_input_type(call.target) ELSE call.scan_type
           IN  ty = NoVal \/ str_upper(ty) \notin RoutedTypes
      [] call.entry = "scan_query_async" ->
           \/ ~parse(call.target).is_valid
           \/ parse(call.target).scan_type \notin RoutedTypes
      [] OTHER -> FALSE

UnroutableCalls == { call \in AsyncCalls : Unroutable(call) }

\* C39: the ScanResult an entry point has returned has status COMPLETED or
\* FAILED; a call with an undetectable or unsupported type or an invalid
\* query has returned FAILED with an error message, without reading the
\* registry and without running a plugin; and a call that has not returned
\* can always take its next step to the return.
C39_TerminalStatus ==
    \A i \in ScanIds :
      LET sc == ascan.scans[i]
      IN  /\ sc.pc = "returned" =>
                /\ sc.status \in {"COMPLETED", "FAILED"}
                /\ sc.call \in UnroutableCalls =>
                     /\ sc.status = "FAILED"
                     /\ sc.error # ""
                     /\ ~sc.read.done
                     /\ sc.launched = <<>>
          /\ sc.pc = "gather" => ENABLED GatherReturns(i)

\* One engine, two scans: a query naming the unsupported type NAME failed
\* with a message and ran nothing, and an e-mail scan whose plugin returned
\* a row with an unknown threat level ended FAILED.
C39_Witness ==
    /\ ascan.scans["first"].pc = "returned"
    /\ ascan.scans["first"].call.target = "name:\"John Doe\""
    /\ ascan.scans["first"].status = "FAILED"
    /\ ascan.scans["first"].error = "Unsupported scan type: NAME"
    /\ ascan.scans["second"].pc = "returned"
    /\ ascan.scans["second"].launched # <<>>
    /\ ascan.scans["second"].error = "bad_row"
    /\ ascan.scans["second"].status = "FAILED"

\* ------------------------------------------------------------------ C35
\* C35: whatever a module did (raised, timed out, returned no pair, a pair
\* without a list, or a list with an entry of unexpected shape), a scan that
\* has ended has returned to its caller and not raised, with no error set
\* for the scan as a whole, and its results hold the findings of every
\* sibling module that returned findings.
C35_ErrorsContained ==
    ret.returned /\ runners # <<>> =>
      /\ ret.type # "<raised>"
      /\ ret.error = NoError
      /\ \A g \in Launched :
           res[g] \in RunResults /\ res[g].shape = "pair" =>
             \A k \in DOMAIN res[g].data :
               res[g].data[k].value # NoneFound => res[g].data[k] \in Results

====
